---- MODULE Spec2Model ----
(***************************************************************************)
(* Verification model of agent0-ts: the Registry Broker adapters           *)
(* (src/src/adapters/registry-broker.ts, registry-broker-utils.ts) and the *)
(* RegistryBroker facade (src/src/core/registry-broker.ts).                *)
(*                                                                         *)
(* Strings are sequences of one-character strings so that trim() is        *)
(* computed, not assumed.  `undefined` is the value Absent.                *)
(***************************************************************************)
EXTENDS Integers, Sequences, FiniteSets, TLC

VARIABLES
  rx,             \* one execution of withRetry(fn)
  tgtIn, tgtOut,  \* argument and result of one resolveChatTarget call
  call,           \* per flow: the async call in progress and its locals
  uaidByAgentId,  \* HashgraphRegistryBrokerChatAdapter.uaidByAgentId
  firstBound,     \* history: the uaid the first search hit bound to each agentId
  searchAdapters, \* AgentAdapterRegistry.searchAdapters
  chatAdapters,   \* AgentAdapterRegistry.chatAdapters
  regLog,         \* history: the registrations made, in order
  sflow,          \* the search call in progress, its locals and its requests
  sdk,            \* one SDK searchAgents call: its filters and effective chains
  snd,            \* one send on a conversation handle / one argument validation
  sem,            \* SemanticSearchManager: the vector store and the store calls of one operation
  ssc,            \* one SemanticSearchClient.searchAgents call
  sync            \* one SemanticSyncRunner.run: the subgraph, the sync state and the batch in hand

vars ==
  <<rx, tgtIn, tgtOut, call, uaidByAgentId, firstBound,
    searchAdapters, chatAdapters, regLog, sflow, sdk, snd, sem, ssc, sync>>

retryVars == <<rx>>

targetVars == <<tgtIn, tgtOut>>

chatVars == <<call, uaidByAgentId, firstBound>>

registryVars == <<searchAdapters, chatAdapters, regLog>>

searchVars == <<sflow>>

sdkVars == <<sdk>>

sendVars == <<snd>>

semanticVars == <<sem>>

clientVars == <<ssc>>

syncVars == <<sync>>

\* what the actions of one component leave alone
notRetry == <<targetVars, chatVars, registryVars, searchVars, sdkVars, sendVars, semanticVars, clientVars, syncVars>>

notTarget == <<retryVars, chatVars, registryVars, searchVars, sdkVars, sendVars, semanticVars, clientVars, syncVars>>

notChat == <<retryVars, targetVars, registryVars, searchVars, sdkVars, sendVars, semanticVars, clientVars, syncVars>>

notRegistry == <<retryVars, targetVars, chatVars, searchVars, sdkVars, sendVars, semanticVars, clientVars, syncVars>>

notSearch == <<retryVars, targetVars, chatVars, registryVars, sdkVars, sendVars, semanticVars, clientVars, syncVars>>

notSdk == <<retryVars, targetVars, chatVars, registryVars, searchVars, sendVars, semanticVars, clientVars, syncVars>>

notSend == <<retryVars, targetVars, chatVars, registryVars, searchVars, sdkVars, semanticVars, clientVars, syncVars>>

notSemantic == <<retryVars, targetVars, chatVars, registryVars, searchVars, sdkVars, sendVars, clientVars, syncVars>>

notClient == <<retryVars, targetVars, chatVars, registryVars, searchVars, sdkVars, sendVars, semanticVars, syncVars>>

notSync == <<retryVars, targetVars, chatVars, registryVars, searchVars, sdkVars, sendVars, semanticVars, clientVars>>

(***************************************************************************)
(* Strings, undefined, String.prototype.trim, ?. and ??                    *)
(***************************************************************************)
SP == " "

Absent == <<"<undefined>">>

EmptyStr == <<>>

RECURSIVE TrimStart(_)
TrimStart(s) ==
  IF s = <<>> THEN <<>>
  ELSE IF Head(s) = SP THEN TrimStart(Tail(s)) ELSE s

RECURSIVE TrimEnd(_)
TrimEnd(s) ==
  IF s = <<>> THEN <<>>
  ELSE IF s[Len(s)] = SP THEN TrimEnd(SubSeq(s, 1, Len(s) - 1)) ELSE s

Trim(s) == TrimEnd(TrimStart(s))

\* value?.trim()
OptTrim(v) == IF v = Absent THEN Absent ELSE Trim(v)

\* a ?? b
Coalesce(a, b) == IF a = Absent THEN b ELSE a

\* JavaScript truthiness of an optional string
Truthy(v) == v # Absent /\ v # EmptyStr

(***************************************************************************)
(* Errors.  status = NoStatus models an error object without a `status`    *)
(* field; origin names the call (or the local throw site) that created the *)
(* error object and seq the attempt that threw it, so that two error       *)
(* objects are equal only when they are the same thrown object.            *)
(***************************************************************************)
NoStatus == 0

ErrStatuses == {NoStatus, 400, 429, 500, 502, 503, 504}

Err(status, origin, seq) == [status |-> status, origin |-> origin, seq |-> seq]

NoError == Err(-1, "none", 0)

UnreachableError == Err(NoStatus, "Unreachable retry state", 0)

(***************************************************************************)
(* withRetry (src/src/adapters/registry-broker.ts:56-78)                   *)
(***************************************************************************)
maxAttempts == 3

baseDelay == 450

\* mutant: an error without a status is classified retryable as well
isRetryableBrokerError_NoStatusTransient(error) ==
  error.status \in {NoStatus, 502, 503, 504}

\* mutant: status 429 is classified retryable as well
isRetryableBrokerError_RateLimitTransient(error) ==
  error.status \in {429, 502, 503, 504}

isRetryableBrokerError(error) ==
  error.status = 502 \/ error.status = 503 \/ error.status = 504

\* mutant: every delay is the base delay
BackoffDelay_Constant(attempt) == baseDelay

\* delay(450 * attempt)
BackoffDelay(attempt) == baseDelay * attempt

\* mutant: the attempt budget is exhausted one attempt early
ShouldRethrow_EarlyExhaust(error, attempt) ==
  ~isRetryableBrokerError(error) \/ attempt = maxAttempts - 1

\* mutant: the classification is ignored, every error is retried
ShouldRethrow_RetryAll(error, attempt) ==
  attempt = maxAttempts

\* mutant: a 503 is retried only when it is the first failure
ShouldRethrow_HistoryDependent(error, attempt) ==
  \/ ~isRetryableBrokerError(error)
  \/ attempt = maxAttempts
  \/ (attempt > 1 /\ error.status = 503)

\* the catch block's test: rethrow, or sleep and loop
ShouldRethrow(error, attempt) ==
  ~isRetryableBrokerError(error) \/ attempt = maxAttempts

\* `throw error`
Rethrown(error) == error

(***************************************************************************)
(* resolveChatTarget (src/src/adapters/registry-broker-utils.ts:132-145)   *)
(* The result is {uaid} or {agentUrl} (the other key is absent), or the    *)
(* function throws.                                                        *)
(***************************************************************************)
TargetOf(uaid, agentUrl) == [uaid |-> uaid, agentUrl |-> agentUrl]

TargetResult(st, uaid, agentUrl) == [st |-> st, uaid |-> uaid, agentUrl |-> agentUrl]

\* mutant: the endpoint URL is preferred over the uaid
resolveChatTarget_UrlFirst(options) ==
  LET trimmedUrl == OptTrim(options.agentUrl) IN
  IF Truthy(trimmedUrl) THEN TargetResult("ok", Absent, trimmedUrl)
  ELSE LET trimmedUaid == OptTrim(options.uaid) IN
       IF Truthy(trimmedUaid) THEN TargetResult("ok", trimmedUaid, Absent)
       ELSE TargetResult("threw", Absent, Absent)

resolveChatTarget(options) ==
  LET trimmedUaid == OptTrim(options.uaid) IN
  IF Truthy(trimmedUaid) THEN TargetResult("ok", trimmedUaid, Absent)
  ELSE LET trimmedUrl == OptTrim(options.agentUrl) IN
       IF Truthy(trimmedUrl) THEN TargetResult("ok", Absent, trimmedUrl)
       ELSE TargetResult("threw", Absent, Absent)

\* bound on the length of the strings handed to resolveChatTarget
MaxStrLen == 3

Alphabet == {SP, "u"}

RECURSIVE StrsOfLen(_)
StrsOfLen(n) ==
  IF n = 0 THEN {<<>>}
  ELSE {Append(s, c) : s \in StrsOfLen(n - 1), c \in Alphabet}

Strs == UNION {StrsOfLen(n) : n \in 0..MaxStrLen}

OptStrs == Strs \cup {Absent}

NoTargetIn == TargetOf(Absent, Absent)

NoTargetOut == TargetResult("none", Absent, Absent)

(***************************************************************************)
(* Chat flows: HashgraphRegistryBrokerChatAdapter.message and              *)
(* RegistryBroker.chat.  Each flow is one async call; it advances when the *)
(* network call it awaits returns or throws.                               *)
(***************************************************************************)
\* number of flows that may run concurrently on one adapter instance
NumProcs == 2

Procs == 1..NumProcs

MainProc == 1

Ops == {"search1", "search2", "start", "create", "hsend", "send"}

\* statuses of the errors the broker client throws in the chat flows
BrokerErrStatuses == {NoStatus, 400, 503}

\* inputs
Preferences == {"unset", "preferred", "required", "disabled"}

AgentIdInputs == {Absent, <<SP>>, <<"a", SP>>, <<"b">>}

AgentKeys == {<<"a">>, <<"b">>}

A2aInputs == {Absent, <<SP>>, <<"x">>}

McpInputs == {Absent, <<"y", SP>>}

\* hits[0]?.uaid of a search response (Absent: no hit, or a hit without uaid)
SearchUaids == {Absent, <<SP>>, <<"u">>, <<"v", SP>>}

\* handle returned by client.chat.start (sessionId: string, not validated by
\* the client's type: a blank one is a value the call can resolve with)
StartHandles ==
  [sessionId : {<<"e">>, <<SP>>}, mode : {"encrypted", "plaintext"}]

NoHandle == [sessionId |-> Absent, mode |-> "none"]

\* response.sessionId of client.chat.createSession
CreateSessionIds == {Absent, <<SP>>, <<"s", SP>>}

Request(sessionId, preference, agentId, a2a, mcp, uaid, message) ==
  [sessionId |-> sessionId, preference |-> preference, agentId |-> agentId,
   a2aEndpoint |-> a2a, mcpEndpoint |-> mcp, uaid |-> uaid, message |-> message]

NoRequest == Request(Absent, "unset", Absent, Absent, Absent, Absent, Absent)

\* AgentChatOpenConversationRequest values handed to message()
ResumeRequests ==
  {Request(sid, pref, Absent, Absent, Absent, Absent, Absent) :
     sid \in {<<"s">>, <<SP, "s">>}, pref \in Preferences}

NewRequests ==
  {Request(Absent, pref, aid, a2a, mcp, Absent, Absent) :
     pref \in Preferences, aid \in {Absent, <<SP>>},
     a2a \in A2aInputs, mcp \in McpInputs}
  \cup
  {Request(Absent, pref, aid, a2a, Absent, Absent, Absent) :
     pref \in Preferences, aid \in AgentIdInputs, a2a \in {Absent, <<"x">>}}
  \cup
  {Request(<<SP>>, pref, Absent, <<"x">>, Absent, Absent, Absent) :
     pref \in Preferences}

MessageRequests == ResumeRequests \cup NewRequests

\* requests of the flows that race on the uaid cache
RacingRequests ==
  {Request(Absent, "disabled", aid, Absent, Absent, Absent, Absent) :
     aid \in {<<"a", SP>>}}

\* statuses of the errors thrown while flows race
RacingErrStatuses == {400}

\* Erc8004ChatOptions values handed to RegistryBroker.chat
ChatRequests ==
  {Request(Absent, pref, Absent, Absent, Absent, uaid, msg) :
     pref \in Preferences, uaid \in {<<SP>>, <<"u", SP>>},
     msg \in {<<SP>>, <<"m">>}}

NoResult == [st |-> "none", sessionId |-> Absent, mode |-> "none", error |-> NoError]

IdleCall ==
  [kind |-> "none", pc |-> "idle", req |-> NoRequest,
   target |-> NoTargetIn, attempt |-> 0, calls |-> [o \in Ops |-> 0],
   cached |-> Absent, first |-> Absent, uaid1 |-> Absent, uaid2 |-> Absent,
   sid |-> Absent,
   startErr |-> NoError, startHandle |-> NoHandle, result |-> NoResult]

\* request.encryption?.preference ?? 'preferred'
Preference(req) ==
  IF req.preference = "unset" THEN "preferred" ELSE req.preference

\* the flow issues the network call op (first attempt)
BeginOp(c, op) ==
  [c EXCEPT !.pc = op, !.attempt = 1, !.calls[op] = @ + 1]

\* the async call rejects with error
Fail(c, error) ==
  [c EXCEPT !.pc = "failed",
            !.result = [st |-> "error", sessionId |-> Absent,
                        mode |-> "none", error |-> error]]

\* the async call resolves with a handle / chat result
Return(c, sessionId, mode) ==
  [c EXCEPT !.pc = "done",
            !.result = [st |-> "handle", sessionId |-> sessionId,
                        mode |-> mode, error |-> NoError]]

\* mutant: createPlaintextHandle labels its handle encrypted
createPlaintextHandle_Encrypted(sessionId) ==
  [sessionId |-> sessionId, mode |-> "encrypted"]

\* createPlaintextHandle(sessionId)
createPlaintextHandle(sessionId) == [sessionId |-> sessionId, mode |-> "plaintext"]

\* mutant: every handle of chat.start is reported as encrypted
mapConversationHandle_AlwaysEncrypted(handle) ==
  [sessionId |-> handle.sessionId, mode |-> "encrypted"]

\* mapConversationHandle(handle)
mapConversationHandle(handle) ==
  [sessionId |-> handle.sessionId,
   mode |-> IF handle.mode = "encrypted" THEN "encrypted" ELSE "plaintext"]

\* mutant: the encrypted start is attempted whatever the preference
Negotiate_IgnoresDisabled(c, resolved) ==
  LET t == resolveChatTarget(resolved) IN
  IF t.st = "threw"
  THEN Fail(c, Err(NoStatus, "Either uaid or agentUrl is required for chat", 0))
  ELSE BeginOp([c EXCEPT !.target = TargetOf(t.uaid, t.agentUrl)], "start")

\* message(): lines 394-414 and the first fn() of the withRetry that follows
Negotiate(c, resolved) ==
  LET t == resolveChatTarget(resolved) IN
  IF t.st = "threw"
  THEN Fail(c, Err(NoStatus, "Either uaid or agentUrl is required for chat", 0))
  ELSE LET c1 == [c EXCEPT !.target = TargetOf(t.uaid, t.agentUrl)] IN
       IF Preference(c.req) # "disabled"
       THEN BeginOp(c1, "start")
       ELSE BeginOp(c1, "create")

\* resolveChatTargetFromAgent, lines 349-354: no agentId
ResolveFromEndpoints(c) ==
  LET agentUrl == Coalesce(OptTrim(c.req.a2aEndpoint),
                           Coalesce(OptTrim(c.req.mcpEndpoint), EmptyStr)) IN
  IF Truthy(agentUrl)
  THEN Negotiate(c, TargetOf(Absent, agentUrl))
  ELSE Fail(c, Err(NoStatus, "Agent does not have an agentId or a chat-capable endpoint", 0))

\* mutant: a resumed session is handed out even when encryption is required
Resume_AllowsRequired(c, sessionId) ==
  LET h == createPlaintextHandle(sessionId) IN Return(c, h.sessionId, h.mode)

\* message(): lines 384-391, request.sessionId is non-blank
Resume(c, sessionId) ==
  IF Preference(c.req) = "required"
  THEN Fail(c, Err(NoStatus, "Encrypted chat cannot be resumed from an existing sessionId", 0))
  ELSE LET h == createPlaintextHandle(sessionId) IN
       Return(c, h.sessionId, h.mode)

\* request.agent.agentId?.trim() ?? ''
AgentIdOf(req) == Coalesce(OptTrim(req.agentId), EmptyStr)

\* mutant: the cache is never consulted
CacheGet_AlwaysMiss(cache, agentId) == Absent

\* this.uaidByAgentId.get(agentId)
CacheGet(cache, agentId) ==
  IF agentId \in DOMAIN cache THEN cache[agentId] ELSE Absent

(***************************************************************************)
(* AgentAdapterRegistry (src/src/core/adapters.ts:143-170).  A Map is the  *)
(* sequence of its entries in insertion order.                             *)
(***************************************************************************)
AdapterIds == {"i", "j", "k"}

\* adapter objects: two distinct instances may carry the same id
Adapters == [id : AdapterIds, obj : {"A", "B"}]

NoAdapter == [id |-> "<undefined>", obj |-> "<undefined>"]

MapHas(m, key) == \E i \in 1..Len(m) : m[i].key = key

\* mutant: set() adds an entry even when the key is present
MapSet_AlwaysAppends(m, key, value) ==
  Append(m, [key |-> key, value |-> value])

\* Map.prototype.set: an existing key keeps its position
MapSet(m, key, value) ==
  IF MapHas(m, key)
  THEN [i \in 1..Len(m) |->
          IF m[i].key = key THEN [key |-> key, value |-> value] ELSE m[i]]
  ELSE Append(m, [key |-> key, value |-> value])

\* Map.prototype.get
MapGet(m, key) ==
  IF MapHas(m, key)
  THEN m[CHOOSE i \in 1..Len(m) :
           m[i].key = key /\ \A j \in 1..(i - 1) : m[j].key # key].value
  ELSE NoAdapter

\* [...map.keys()]
MapKeys(m) == [i \in 1..Len(m) |-> m[i].key]

getSearchAdapter(id) == MapGet(searchAdapters, id)

getChatAdapter(id) == MapGet(chatAdapters, id)

listSearchAdapters == MapKeys(searchAdapters)

listChatAdapters == MapKeys(chatAdapters)

\* bound on the number of registrations made
MaxRegs == 3

RegistryEmpty ==
  /\ searchAdapters = <<>>
  /\ chatAdapters = <<>>
  /\ regLog = <<>>

registerSearchAdapter ==
  /\ Len(regLog) < MaxRegs
  /\ \E adapter \in Adapters :
       /\ searchAdapters' = MapSet(searchAdapters, adapter.id, adapter)
       /\ regLog' = Append(regLog, [cap |-> "search", adapter |-> adapter])
  /\ UNCHANGED <<chatAdapters, notRegistry>>

\* mutant: the chat registration writes the search directory
registerChatAdapter_WritesSearch ==
  /\ Len(regLog) < MaxRegs
  /\ \E adapter \in Adapters :
       /\ searchAdapters' = MapSet(searchAdapters, adapter.id, adapter)
       /\ regLog' = Append(regLog, [cap |-> "chat", adapter |-> adapter])
  /\ UNCHANGED <<chatAdapters, notRegistry>>

registerChatAdapter ==
  /\ Len(regLog) < MaxRegs
  /\ \E adapter \in Adapters :
       /\ chatAdapters' = MapSet(chatAdapters, adapter.id, adapter)
       /\ regLog' = Append(regLog, [cap |-> "chat", adapter |-> adapter])
  /\ UNCHANGED <<searchAdapters, notRegistry>>

(***************************************************************************)
(* Search: HashgraphRegistryBrokerSearchAdapter (search, searchBroker,     *)
(* vectorSearch; src/src/adapters/registry-broker.ts:205-284) and          *)
(* RegistryBroker (searchErc8004Agents, vectorSearch, vectorSearchErc8004; *)
(* src/src/core/registry-broker.ts:255-385).  A request is identified by   *)
(* the SearchParams / VectorSearchRequest object handed to the client.     *)
(* Scalars use Undefined for `undefined`, lists use Absent.                *)
(***************************************************************************)
Undefined == "<undefined>"

NoLimit == -1

ERC8004_DEFAULT_ADAPTER == "erc8004-adapter"

ERC8004_DEFAULT_REGISTRY == "erc-8004"

DefaultLimit == 25

DefaultSortBy == "most-recent"

DefaultProtocols == <<"a2a">>

\* a ?? b on scalars
OrElse(a, b) == IF a = Undefined THEN b ELSE a

\* options.limit ?? 25
LimitOrDefault(limit) == IF limit = NoLimit THEN DefaultLimit ELSE limit

\* options.registries?.[0]
FirstRegistry(registries) ==
  IF registries = Absent \/ registries = <<>> THEN Undefined ELSE registries[1]

\* hits of a broker payload: id = "" is a hit without a string id
RawHit(id, originalId, uaid) == [id |-> id, originalId |-> originalId, uaid |-> uaid]

HitN == RawHit("h", Undefined, "uaid:1;nativeId=n")

HitO == RawHit("g", "o", Undefined)

HitNoId == RawHit("", Undefined, "uaid:2")

HitBlankUaid == RawHit("k", Undefined, " ")

\* JSON payloads of GET /search
Payload(isRecord, hitsIsRecordArray, hits) ==
  [isRecord |-> isRecord, hitsIsRecordArray |-> hitsIsRecordArray, hits |-> hits]

SearchPayloads ==
  {Payload(FALSE, FALSE, <<>>), Payload(TRUE, FALSE, <<>>)}
  \cup {Payload(TRUE, TRUE, hits) :
          hits \in {<<>>, <<HitNoId>>, <<HitN>>, <<HitO, HitN>>,
                    <<HitBlankUaid, HitNoId>>}}

\* parseBrokerSearchResult
parseBrokerSearchResult(value) ==
  IF ~value.isRecord THEN [st |-> "threw", hits |-> <<>>]
  ELSE LET hitsValue == IF value.hitsIsRecordArray THEN value.hits ELSE <<>>
       IN [st |-> "ok", hits |-> SelectSeq(hitsValue, LAMBDA hit : hit.id # "")]

\* extractNativeIdFromUaid on the uaids above
extractNativeIdFromUaid(uaid) ==
  IF uaid = "uaid:1;nativeId=n" THEN "n" ELSE Undefined

\* the id mapSearchResult gives a hit
MappedId(hit) ==
  IF hit.originalId # Undefined THEN hit.originalId
  ELSE LET uaid == IF hit.uaid # Undefined /\ hit.uaid # " " /\ hit.uaid # ""
                   THEN hit.uaid ELSE Undefined
           nativeId == IF uaid # Undefined THEN extractNativeIdFromUaid(uaid)
                       ELSE Undefined
       IN OrElse(nativeId, hit.id)

\* mapSearchResult(result).hits
mapSearchResult(hits) ==
  [i \in 1..Len(hits) |-> [id |-> MappedId(hits[i]), from |-> hits[i]]]

\* AgentSearchOptions / Erc8004SearchOptions
SearchOptions(query, limit, registry, registries, adapters, protocols) ==
  [query |-> query, limit |-> limit, registry |-> registry,
   registries |-> registries, adapters |-> adapters, protocols |-> protocols]

NoSearchOptions ==
  SearchOptions(Undefined, NoLimit, Undefined, Absent, Absent, Absent)

\* the object handed to the client: SearchParams (op = "search") or
\* VectorSearchRequest (op = "vectorSearch", its filter flattened)
Params(op, q, limit, sortBy, registry, registries, adapters, protocols) ==
  [op |-> op, q |-> q, limit |-> limit, sortBy |-> sortBy, registry |-> registry,
   registries |-> registries, adapters |-> adapters, protocols |-> protocols]

\* statuses of the errors the client throws in the search flows
SearchErrStatuses == {NoStatus, 400, 503}

\* inputs of HashgraphRegistryBrokerSearchAdapter.search
AdapterSearchInputs ==
  {SearchOptions("q", NoLimit, registry, registries, adapters, Absent) :
     registry \in {Undefined, ERC8004_DEFAULT_REGISTRY, "other"},
     registries \in {Absent, <<>>, <<"other">>,
                     <<ERC8004_DEFAULT_REGISTRY, "other">>},
     adapters \in {Absent, <<>>, <<"custom">>}}

\* inputs of RegistryBroker.searchErc8004Agents
FacadeSearchInputs ==
  {SearchOptions("q", limit, registry, Absent, adapters, protocols) :
     limit \in {NoLimit, 5},
     registry \in {Undefined, ERC8004_DEFAULT_REGISTRY, "other"},
     adapters \in {Absent, <<>>, <<"custom">>},
     protocols \in {Absent, <<"mcp">>}}

\* inputs of vectorSearchErc8004 (adapter and facade): options.adapters is
\* accepted by the facade and by the adapter's filter
VectorSearchInputs ==
  {SearchOptions("q", limit, registry, Absent, adapters, protocols) :
     limit \in {NoLimit, 5},
     registry \in {Undefined, "other"},
     adapters \in {Absent, <<"custom">>},
     protocols \in {Absent, <<"mcp">>}}

\* a client response: its hits array may be missing
Response(hasHits, hits) == [hasHits |-> hasHits, hits |-> hits]

\* response.hits ?? []
HitsOrEmpty(response) == IF response.hasHits THEN response.hits ELSE <<>>

\* results of client.search
ClientSearchResults ==
  {Response(FALSE, <<>>)}
  \cup {Response(TRUE, hits) : hits \in {<<>>, <<HitN>>, <<HitO, HitN>>}}

\* hits of a client.vectorSearch response
VectorHit(agent, uaid) == [agent |-> agent, uaid |-> uaid]

NoAgent == RawHit(Undefined, Undefined, Undefined)

\* responses of client.vectorSearch
ClientVectorResponses ==
  {Response(FALSE, <<>>)}
  \cup {Response(TRUE, hits) :
          hits \in {<<>>, <<VectorHit(HitN, Undefined)>>,
                    <<VectorHit(NoAgent, "uaid:3"), VectorHit(HitO, Undefined)>>}}

NoSearchResult ==
  [st |-> "none", source |-> "none", hits |-> <<>>, error |-> NoError]

NoParams ==
  Params("none", Undefined, NoLimit, Undefined, Undefined, Absent, Absent, Absent)

IdleSearch ==
  [kind |-> "none", pc |-> "idle", options |-> NoSearchOptions,
   registry |-> Undefined, phase |-> "none", attempt |-> 0,
   searches |-> <<>>, requests |-> <<>>, returned |-> <<>>, thrown |-> <<>>,
   vectorErr |-> NoError, fallbackOptions |-> NoSearchOptions,
   result |-> NoSearchResult]

\* one invocation of a client call: the params it carries, the logical
\* search (index in searches) it belongs to and the attempt number
Invocation(params, search, attempt) ==
  [params |-> params, search |-> search, attempt |-> attempt]

\* searchBroker(params): the first fn() of its withRetry
searchBroker(f, phase, params) ==
  [f EXCEPT !.pc = "broker", !.phase = phase, !.attempt = 1,
            !.searches = Append(@, params),
            !.requests = Append(@, Invocation(params, Len(f.searches) + 1, 1))]

\* a client call made without withRetry
ClientCall(f, pc, params) ==
  [f EXCEPT !.pc = pc, !.phase = pc, !.attempt = 1,
            !.searches = Append(@, params),
            !.requests = Append(@, Invocation(params, Len(f.searches) + 1, 1))]

SearchFail(f, error) ==
  [f EXCEPT !.pc = "failed",
            !.result = [st |-> "error", source |-> f.phase, hits |-> <<>>,
                        error |-> error]]

SearchReturn(f, hits) ==
  [f EXCEPT !.pc = "done",
            !.result = [st |-> "ok", source |-> f.phase, hits |-> hits,
                        error |-> NoError]]

\* searchParamsBase of HashgraphRegistryBrokerSearchAdapter.search
SearchParamsBase(options, registry) ==
  Params("search", options.query, LimitOrDefault(options.limit), DefaultSortBy,
         registry, options.registries, Absent, options.protocols)

WithAdapters(params, adapters) == [params EXCEPT !.adapters = adapters]

\* options.registry ?? options.registries?.[0] ?? ERC8004_DEFAULT_REGISTRY
AdapterRegistryOf(options) ==
  OrElse(options.registry,
         OrElse(FirstRegistry(options.registries), ERC8004_DEFAULT_REGISTRY))

\* mutant: the default adapter is applied whatever the registry
AdapterSearchBegin_DefaultEverywhere(f, options) ==
  LET registry == AdapterRegistryOf(options)
      base == SearchParamsBase(options, registry)
      f1 == [f EXCEPT !.kind = "adapterSearch", !.options = options,
                      !.registry = registry]
  IN IF options.adapters # Absent
     THEN searchBroker(f1, "given", WithAdapters(base, options.adapters))
     ELSE searchBroker(f1, "default",
                       WithAdapters(base, <<ERC8004_DEFAULT_ADAPTER>>))

\* search(options) up to its first searchBroker call
AdapterSearchBegin(f, options) ==
  LET registry == AdapterRegistryOf(options)
      base == SearchParamsBase(options, registry)
      f1 == [f EXCEPT !.kind = "adapterSearch", !.options = options,
                      !.registry = registry]
  IN IF options.adapters # Absent
     THEN searchBroker(f1, "given", WithAdapters(base, options.adapters))
     ELSE IF registry # ERC8004_DEFAULT_REGISTRY
          THEN searchBroker(f1, "plain", base)
          ELSE searchBroker(f1, "default",
                            WithAdapters(base, <<ERC8004_DEFAULT_ADAPTER>>))

AdapterSearchCall ==
  /\ sflow.pc = "idle"
  /\ \E options \in AdapterSearchInputs :
       sflow' = AdapterSearchBegin(IdleSearch, options)
  /\ UNCHANGED notSearch

\* mutant: the unrestricted search is made whatever the first search found
AfterSearchBroker_AlwaysBroadens(f, hits) ==
  IF f.phase = "default"
  THEN searchBroker(f, "fallback", SearchParamsBase(f.options, f.registry))
  ELSE SearchReturn(f, mapSearchResult(hits))

\* search(options) after a searchBroker call has returned its parsed hits
AfterSearchBroker(f, hits) ==
  IF f.phase = "default" /\ Len(hits) = 0
  THEN searchBroker(f, "fallback", SearchParamsBase(f.options, f.registry))
  ELSE SearchReturn(f, mapSearchResult(hits))

\* requestJson resolves: withRetry returns, parseBrokerSearchResult runs
SearchBrokerReturns ==
  /\ sflow.pc = "broker"
  /\ \E raw \in SearchPayloads :
       LET parsed == parseBrokerSearchResult(raw)
           f == [sflow EXCEPT !.returned = Append(@, raw)]
       IN sflow' =
            IF parsed.st = "threw"
            THEN SearchFail(f, Err(NoStatus, "Registry Broker search returned a non-object payload", 0))
            ELSE AfterSearchBroker(f, parsed.hits)
  /\ UNCHANGED notSearch

\* requestJson rejects: withRetry's catch block, the delay and the next fn()
SearchBrokerThrows ==
  /\ sflow.pc = "broker"
  /\ \E s \in SearchErrStatuses :
       LET error == Err(s, "requestJson", sflow.attempt)
           f == [sflow EXCEPT !.thrown = Append(@, error)]
       IN sflow' =
            IF ShouldRethrow(error, f.attempt)
            THEN SearchFail(f, Rethrown(error))
            ELSE IF f.attempt + 1 <= maxAttempts
                 THEN [f EXCEPT !.attempt = @ + 1,
                                !.requests = Append(@,
                                   Invocation(f.searches[Len(f.searches)],
                                              Len(f.searches), f.attempt + 1))]
                 ELSE SearchFail(f, UnreachableError)
  /\ UNCHANGED notSearch

\* the request HashgraphRegistryBrokerSearchAdapter.vectorSearch sends
AdapterVectorRequest(request) ==
  Params("vectorSearch", request.query, request.limit, Undefined,
         request.registry, Absent, request.adapters, request.protocols)

\* mapVectorSearchResponse(response).hits
mapVectorSearchResponse(response) ==
  LET list == HitsOrEmpty(response) IN
  [i \in 1..Len(list) |->
     [id |-> IF list[i].agent = NoAgent THEN Undefined
             ELSE MappedId(list[i].agent),
      from |-> list[i]]]

\* vectorSearch(request): client.vectorSearch is awaited directly
AdapterVectorSearchCall ==
  /\ sflow.pc = "idle"
  /\ \E request \in VectorSearchInputs :
       sflow' = ClientCall([IdleSearch EXCEPT !.kind = "adapterVector",
                                              !.options = request],
                           "avector", AdapterVectorRequest(request))
  /\ UNCHANGED notSearch

AdapterVectorSearchReturns ==
  /\ sflow.pc = "avector"
  /\ \E response \in ClientVectorResponses :
       sflow' = SearchReturn([sflow EXCEPT !.returned = Append(@, response)],
                             mapVectorSearchResponse(response))
  /\ UNCHANGED notSearch

\* client.vectorSearch rejects: the rejection is vectorSearch's own
AdapterVectorSearchThrows ==
  /\ sflow.pc = "avector"
  /\ \E s \in SearchErrStatuses :
       LET error == Err(s, "vectorSearch", sflow.attempt)
           f == [sflow EXCEPT !.thrown = Append(@, error)]
       IN sflow' = SearchFail(f, error)
  /\ UNCHANGED notSearch

\* searchParams of RegistryBroker.searchErc8004Agents
Erc8004SearchParams(options) ==
  LET registry == OrElse(options.registry, ERC8004_DEFAULT_REGISTRY) IN
  Params("search", options.query, LimitOrDefault(options.limit), DefaultSortBy,
         registry, Absent,
         IF options.adapters # Absent THEN options.adapters
         ELSE IF registry = ERC8004_DEFAULT_REGISTRY
              THEN <<ERC8004_DEFAULT_ADAPTER>>
              ELSE Absent,
         options.protocols)

\* searchErc8004Agents(options): return this.client.search(searchParams)
searchErc8004Agents(f, options) == ClientCall(f, "csearch", Erc8004SearchParams(options))

FacadeSearchCall ==
  /\ sflow.pc = "idle"
  /\ \E options \in FacadeSearchInputs :
       sflow' = searchErc8004Agents(
                  [IdleSearch EXCEPT !.kind = "facadeSearch", !.options = options],
                  options)
  /\ UNCHANGED notSearch

\* the hits vectorSearchErc8004 builds from the keyword search's hits
FallbackHits(fallback) ==
  LET fallbackHits == HitsOrEmpty(fallback) IN
  [i \in 1..Len(fallbackHits) |->
     [agent |-> fallbackHits[i], score |-> 0,
      uaid |-> OrElse(fallbackHits[i].uaid, fallbackHits[i].id)]]

\* client.search resolves
ClientSearchReturns ==
  /\ sflow.pc = "csearch"
  /\ \E result \in ClientSearchResults :
       LET f == [sflow EXCEPT !.returned = Append(@, result)] IN
       sflow' = IF f.kind = "facadeSearch"
                THEN SearchReturn(f, HitsOrEmpty(result))
                ELSE SearchReturn(f, FallbackHits(result))
  /\ UNCHANGED notSearch

\* client.search rejects: nothing catches it
ClientSearchThrows ==
  /\ sflow.pc = "csearch"
  /\ \E s \in SearchErrStatuses :
       LET error == Err(s, "search", sflow.attempt)
           f == [sflow EXCEPT !.thrown = Append(@, error)]
       IN sflow' = SearchFail(f, error)
  /\ UNCHANGED notSearch

\* the VectorSearchRequest vectorSearchErc8004 builds (options.adapters is
\* not copied into the filter)
Erc8004VectorRequest(options) ==
  Params("vectorSearch", options.query, options.limit, Undefined,
         OrElse(options.registry, ERC8004_DEFAULT_REGISTRY), Absent, Absent,
         Coalesce(options.protocols, DefaultProtocols))

\* vectorSearchErc8004(query, options) up to client.vectorSearch
FacadeVectorSearchCall ==
  /\ sflow.pc = "idle"
  /\ \E options \in VectorSearchInputs :
       sflow' = ClientCall([IdleSearch EXCEPT !.kind = "facadeVector",
                                              !.options = options],
                           "cvector", Erc8004VectorRequest(options))
  /\ UNCHANGED notSearch

\* RegistryBroker.vectorSearch: hits with their uaid filled in
FacadeVectorHits(result) ==
  LET list == HitsOrEmpty(result) IN
  [i \in 1..Len(list) |->
     [agent |-> list[i].agent,
      uaid |-> OrElse(list[i].uaid,
                      OrElse(list[i].agent.uaid, list[i].agent.id))]]

\* mutant: an empty vector result is replaced by the keyword search
AfterVectorSearch_BroadensOnEmpty(f, result) ==
  IF Len(FacadeVectorHits(result)) = 0
  THEN LET request == f.searches[1]
           options == SearchOptions(request.q, request.limit, request.registry,
                                    Absent, Absent, request.protocols)
       IN searchErc8004Agents([f EXCEPT !.fallbackOptions = options], options)
  ELSE SearchReturn(f, FacadeVectorHits(result))

\* vectorSearchErc8004 after client.vectorSearch resolved
AfterVectorSearch(f, result) == SearchReturn(f, FacadeVectorHits(result))

FacadeVectorSearchReturns ==
  /\ sflow.pc = "cvector"
  /\ \E result \in ClientVectorResponses :
       sflow' = AfterVectorSearch([sflow EXCEPT !.returned = Append(@, result)],
                                  result)
  /\ UNCHANGED notSearch

\* mutant: the error of the vector search is surfaced
OnVectorSearchError_Propagates(f, error) ==
  SearchFail([f EXCEPT !.vectorErr = error], error)

\* vectorSearchErc8004's catch block: the keyword search on the request's
\* query, registry, protocols and limit
OnVectorSearchError(f, error) ==
  LET request == f.searches[1]
      options == SearchOptions(request.q, request.limit, request.registry,
                               Absent, Absent, request.protocols)
  IN searchErc8004Agents([f EXCEPT !.vectorErr = error,
                                   !.fallbackOptions = options], options)

\* client.vectorSearch rejects inside vectorSearchErc8004's try
FacadeVectorSearchThrows ==
  /\ sflow.pc = "cvector"
  /\ \E s \in SearchErrStatuses :
       LET error == Err(s, "vectorSearch", sflow.attempt)
           f == [sflow EXCEPT !.thrown = Append(@, error)]
       IN sflow' = OnVectorSearchError(f, error)
  /\ UNCHANGED notSearch

\* the caller has its result or its error
SearchFinish ==
  /\ sflow.pc \in {"done", "failed"}
  /\ sflow' = IdleSearch
  /\ UNCHANGED notSearch

(***************************************************************************)
(* SDK searchAgents: the chains a search covers (release notes 1.5.2,      *)
(* "Consistent default chains for searchAgents()").  The SDK class is not  *)
(* part of the sources at hand; this part follows the specification.       *)
(***************************************************************************)
DefaultChain == 1

\* chain ids an SDK instance is initialized with
HomeChains == {1, 137, 8453, 11155111}

\* filters.chains: unset, or a list used as given
ChainsFilter(given, list) == [given |-> given, list |-> list]

ChainsInputs ==
  {ChainsFilter(FALSE, <<>>)}
  \cup {ChainsFilter(TRUE, list) :
          list \in {<<>>, <<1>>, <<137>>, <<137, 1>>, <<137, 137>>, <<8453, 1, 137>>}}

\* the list without the repetitions of an element already seen
RECURSIVE Dedup(_)
Dedup(list) ==
  IF list = <<>> THEN <<>>
  ELSE LET front == Dedup(SubSeq(list, 1, Len(list) - 1))
           last == list[Len(list)]
       IN IF \E i \in 1..Len(front) : front[i] = last THEN front
          ELSE Append(front, last)

\* mutant: the default chains are not de-duplicated
EffectiveChains_NoDedup(filter, home) ==
  IF filter.given THEN filter.list ELSE <<DefaultChain, home>>

\* the chains searchAgents() searches
EffectiveChains(filter, home) ==
  IF filter.given THEN filter.list ELSE Dedup(<<DefaultChain, home>>)

SdkIdle ==
  [pc |-> "idle", home |-> DefaultChain, filter |-> ChainsFilter(FALSE, <<>>),
   query |-> Undefined, path |-> "none", chains |-> <<>>]

\* searchAgents(filters): the keyword (semantic) path when filters carry a
\* query, the non-keyword path otherwise; both search the same chains
SdkSearchAgents ==
  /\ sdk.pc = "idle"
  /\ sdk' = [sdk EXCEPT
               !.pc = "done",
               !.path = IF sdk.query # Undefined THEN "keyword" ELSE "non-keyword",
               !.chains = EffectiveChains(sdk.filter, sdk.home)]
  /\ UNCHANGED notSdk

(***************************************************************************)
(* send on a conversation handle and the argument checks made before any   *)
(* network call: createPlaintextHandle(...).send                           *)
(* (src/src/adapters/registry-broker.ts:357-377), mapConversationHandle    *)
(* (...).send (src/src/adapters/registry-broker-utils.ts:112-130),         *)
(* RegistryBroker.sendErc8004Message (src/src/core/registry-broker.ts:     *)
(* 307-323) and resolveChatTarget as a caller sees it.                     *)
(***************************************************************************)
SendKinds == {"plaintextHandle", "mappedHandle", "erc8004", "target"}

SendOptions(sessionId, message, plaintext, uaid, agentUrl) ==
  [sessionId |-> sessionId, message |-> message, plaintext |-> plaintext,
   uaid |-> uaid, agentUrl |-> agentUrl]

NoSendOptions == SendOptions(Absent, Absent, Absent, Absent, Absent)

\* options of handle.send on a handle of createPlaintextHandle (session "s")
PlaintextSendInputs ==
  {SendOptions(<<"s">>, m, Absent, Absent, Absent) :
     m \in {Absent, EmptyStr, <<SP>>, <<"m">>, <<SP, "m", SP>>}}

\* options of handle.send on a handle of mapConversationHandle (session "e")
MappedSendInputs ==
  {SendOptions(<<"e">>, m, pt, Absent, Absent) :
     m \in {Absent, EmptyStr, <<SP>>, <<"m">>}, pt \in {Absent, EmptyStr, <<"p">>}}

\* Erc8004MessageOptions: sessionId and message are strings
Erc8004SendInputs ==
  {SendOptions(sid, m, Absent, Absent, Absent) :
     sid \in {EmptyStr, <<SP>>, <<"s", SP>>}, m \in {EmptyStr, <<SP>>, <<"m", SP>>}}

\* arguments a caller hands to resolveChatTarget
TargetSendInputs ==
  {SendOptions(Absent, Absent, Absent, uaid, agentUrl) :
     uaid \in {Absent, EmptyStr, <<SP>>, <<"u", SP>>},
     agentUrl \in {Absent, <<SP>>, <<"x">>}}

\* statuses of the errors the client throws on a send
SendErrStatuses == ErrStatuses

NoSendResult == [st |-> "none", error |-> NoError, target |-> NoTargetIn]

SndIdle ==
  [kind |-> "none", pc |-> "idle", options |-> NoSendOptions,
   payload |-> NoSendOptions, attempt |-> 0, invoked |-> 0,
   thrown |-> <<>>, delays |-> <<>>, result |-> NoSendResult]

\* the operation throws error
SendFail(f, error) ==
  [f EXCEPT !.pc = "failed", !.result = [NoSendResult EXCEPT !.st = "error",
                                                             !.error = error]]

\* the operation issues its network call with payload (first invocation)
SendInvoke(f, pc, payload) ==
  [f EXCEPT !.pc = pc, !.payload = payload, !.attempt = 1, !.invoked = 1]

\* mutant: the message is sent without being checked
PlaintextSendBegin_Unchecked(f, options) ==
  SendInvoke(f, "sendMessage",
             SendOptions(options.sessionId,
                         Coalesce(OptTrim(options.message), EmptyStr),
                         Absent, Absent, Absent))

\* createPlaintextHandle(sessionId).send(options), up to the first fn() of
\* withRetry
PlaintextSendBegin(f, options) ==
  LET message == Coalesce(OptTrim(options.message), EmptyStr) IN
  IF ~Truthy(message)
  THEN SendFail(f, Err(NoStatus, "message is required", 0))
  ELSE SendInvoke(f, "sendMessage",
                  SendOptions(options.sessionId, message, Absent, Absent, Absent))

PlaintextSendCall ==
  /\ snd.pc = "idle"
  /\ \E options \in PlaintextSendInputs :
       snd' = PlaintextSendBegin([snd EXCEPT !.kind = "plaintextHandle",
                                             !.options = options], options)
  /\ UNCHANGED notSend

\* mapConversationHandle(handle).send(options), up to handle.send
MappedSendBegin(f, options) ==
  LET plaintext == Coalesce(options.plaintext, options.message) IN
  IF ~Truthy(plaintext)
  THEN SendFail(f, Err(NoStatus, "plaintext is required to send an encrypted message", 0))
  ELSE SendInvoke(f, "handleSend",
                  SendOptions(options.sessionId, options.message, plaintext,
                              Absent, Absent))

MappedSendCall ==
  /\ snd.pc = "idle"
  /\ \E options \in MappedSendInputs :
       snd' = MappedSendBegin([snd EXCEPT !.kind = "mappedHandle",
                                          !.options = options], options)
  /\ UNCHANGED notSend

\* sendErc8004Message(options), up to client.chat.sendMessage
Erc8004SendBegin(f, options) ==
  LET sessionId == Trim(options.sessionId)
      message == Trim(options.message)
  IN
  IF Len(sessionId) = 0
  THEN SendFail(f, Err(NoStatus, "sessionId is required for ERC-8004 messages", 0))
  ELSE IF Len(message) = 0
       THEN SendFail(f, Err(NoStatus, "message is required for ERC-8004 messages", 0))
       ELSE SendInvoke(f, "sendMessage",
                       SendOptions(sessionId, message, Absent, Absent, Absent))

Erc8004SendCall ==
  /\ snd.pc = "idle"
  /\ \E options \in Erc8004SendInputs :
       snd' = Erc8004SendBegin([snd EXCEPT !.kind = "erc8004",
                                           !.options = options], options)
  /\ UNCHANGED notSend

\* resolveChatTarget(options) called on its own: it returns or throws at once
TargetSendCall ==
  /\ snd.pc = "idle"
  /\ \E options \in TargetSendInputs :
       LET f == [snd EXCEPT !.kind = "target", !.options = options]
           t == resolveChatTarget(TargetOf(options.uaid, options.agentUrl))
       IN snd' =
            IF t.st = "threw"
            THEN SendFail(f, Err(NoStatus, "Either uaid or agentUrl is required for chat", 0))
            ELSE [f EXCEPT !.pc = "done",
                           !.result = [NoSendResult EXCEPT
                                         !.st = "ok",
                                         !.target = TargetOf(t.uaid, t.agentUrl)]]
  /\ UNCHANGED notSend

\* the network call of the send resolves
SendReturns ==
  /\ snd.pc \in {"sendMessage", "handleSend"}
  /\ snd' = [snd EXCEPT !.pc = "done", !.result = [NoSendResult EXCEPT !.st = "ok"]]
  /\ UNCHANGED notSend

\* the network call of the send rejects: only the send of a plaintext handle
\* runs inside withRetry
SendThrows ==
  /\ snd.pc \in {"sendMessage", "handleSend"}
  /\ \E s \in SendErrStatuses :
       LET error == Err(s, snd.pc, snd.attempt)
           f == [snd EXCEPT !.thrown = Append(@, error)]
       IN snd' =
            IF f.kind # "plaintextHandle"
            THEN SendFail(f, error)
            ELSE IF ShouldRethrow(error, f.attempt)
                 THEN SendFail(f, Rethrown(error))
                 ELSE IF f.attempt + 1 <= maxAttempts
                      THEN [f EXCEPT !.attempt = @ + 1, !.invoked = @ + 1,
                                     !.delays = Append(@, BackoffDelay(f.attempt))]
                      ELSE SendFail(f, UnreachableError)
  /\ UNCHANGED notSend

\* the caller has seen the outcome
SendFinish ==
  /\ snd.pc \in {"done", "failed"}
  /\ snd' = SndIdle
  /\ UNCHANGED notSend

(***************************************************************************)
(* SemanticSearchClient.searchAgents                                       *)
(* (src/src/core/semantic-search-client.ts:28-162) and the error classes   *)
(* of semantic-search-errors (src/unnamed/part_007:75-269).                *)
(***************************************************************************)
\* `undefined` for retryAfter
NoRetryAfter == -1

\* error objects: class, code, status, retryAfter; decorated: the rate limit
\* information was appended to the message; id: the throw site, so that two
\* error objects are equal only when they are the same object
SemError(class, code, status, retryAfter, id) ==
  [class |-> class, code |-> code, status |-> status, retryAfter |-> retryAfter,
   decorated |-> FALSE, id |-> id]

NoSemError == SemError("none", "", -1, NoRetryAfter, "none")

\* response.status
HttpStatuses == {200, 400, 404, 429, 500, 503}

\* errorData.code of a JSON error body ("": no code)
ErrorCodes ==
  {"RATE_LIMIT_EXCEEDED", "VALIDATION_ERROR", "INTERNAL_ERROR", "BAD_REQUEST",
   "NOT_FOUND", "QUOTA", ""}

\* response body: JSON with a code, or not JSON
Bodies == [json : {TRUE}, code : ErrorCodes] \cup {[json |-> FALSE, code |-> ""]}

\* Retry-After header: absent, empty, integer seconds, an HTTP date n
\* seconds from now, or neither
RetryAfterHeaders ==
  {[kind |-> "absent", n |-> 0], [kind |-> "empty", n |-> 0],
   [kind |-> "int", n |-> 0], [kind |-> "int", n |-> 60],
   [kind |-> "date", n |-> 30], [kind |-> "date", n |-> -5],
   [kind |-> "junk", n |-> 0]}

HttpResponse(status, body, retryAfter, rateInfo) ==
  [status |-> status, body |-> body, retryAfter |-> retryAfter,
   rateInfo |-> rateInfo]

NoResponse == HttpResponse(0, [json |-> FALSE, code |-> ""],
                           [kind |-> "absent", n |-> 0], FALSE)

\* what fetch may reject with: a TypeError of fetch, an Error whose message
\* names a network condition, another Error, a value that is not an Error
FetchRejections ==
  {SemError(c, "", -1, NoRetryAfter, "fetch") :
     c \in {"TypeError:fetch", "Error:timeout", "Error:other", "NonError"}}

\* getRetryAfter(headers)
getRetryAfter(header) ==
  IF header.kind = "int" THEN header.n
  ELSE IF header.kind = "date" THEN (IF header.n > 0 THEN header.n ELSE 0)
  ELSE NoRetryAfter

\* the code given to an error body that is not JSON (lines 85-88)
CodeOfStatus(status) ==
  IF status = 429 THEN "RATE_LIMIT_EXCEEDED"
  ELSE IF status = 400 THEN "BAD_REQUEST"
  ELSE IF status = 404 THEN "NOT_FOUND"
  ELSE IF status >= 500 THEN "INTERNAL_ERROR"
  ELSE "UNKNOWN_ERROR"

\* errorData.code after lines 78-93
ErrorDataCode(response) ==
  IF response.body.json THEN response.body.code ELSE CodeOfStatus(response.status)

\* mutant: the class is chosen by the HTTP status of the response
fromErrorResponse_ByStatus(errorCode, status, retryAfter) ==
  IF status = 429
  THEN SemError("RateLimitError", "RATE_LIMIT_EXCEEDED", 429, retryAfter, "response")
  ELSE IF status = 400
  THEN SemError("ValidationError", "VALIDATION_ERROR", 400, NoRetryAfter, "response")
  ELSE IF status >= 500
  THEN SemError("InternalServerError", "INTERNAL_ERROR", 500, NoRetryAfter, "response")
  ELSE SemError("SemanticSearchError", errorCode, status, retryAfter, "response")

\* SemanticSearchError.fromErrorResponse(errorData, status, retryAfter)
fromErrorResponse(errorCode, status, retryAfter) ==
  LET code == IF errorCode = "" THEN "UNKNOWN_ERROR" ELSE errorCode IN
  IF code = "RATE_LIMIT_EXCEEDED"
  THEN SemError("RateLimitError", "RATE_LIMIT_EXCEEDED", 429, retryAfter, "response")
  ELSE IF code = "VALIDATION_ERROR"
  THEN SemError("ValidationError", "VALIDATION_ERROR", 400, NoRetryAfter, "response")
  ELSE IF code = "INTERNAL_ERROR"
  THEN SemError("InternalServerError", "INTERNAL_ERROR", 500, NoRetryAfter, "response")
  ELSE IF code = "BAD_REQUEST"
  THEN SemError("BadRequestError", "BAD_REQUEST", 400, NoRetryAfter, "response")
  ELSE IF code = "NOT_FOUND"
  THEN SemError("NotFoundError", "NOT_FOUND", 404, NoRetryAfter, "response")
  ELSE SemError("SemanticSearchError", code, status, retryAfter, "response")

\* error instanceof SemanticSearchError
IsSemanticSearchError(error) ==
  error.class \in {"SemanticSearchError", "RateLimitError", "ValidationError",
                   "InternalServerError", "BadRequestError", "NotFoundError",
                   "NetworkError"}

\* new NetworkError(...)
NetworkErrorOf(error) ==
  SemError("NetworkError", "NETWORK_ERROR", 0, NoRetryAfter, "catch")

\* the catch block of searchAgents (lines 131-161): what it throws
OnSearchCatch(error) ==
  IF IsSemanticSearchError(error) THEN error
  ELSE IF error.class \in {"TypeError:fetch", "Error:timeout"} THEN NetworkErrorOf(error)
  ELSE IF error.class \in {"Error:other", "SyntaxError"} THEN error
  ELSE NetworkErrorOf(error)

\* lines 76-126: the error thrown for a response that is not ok
ErrorOfResponse(response) ==
  LET error == fromErrorResponse(ErrorDataCode(response), response.status,
                                 getRetryAfter(response.retryAfter))
  IN IF error.class = "RateLimitError" /\ response.rateInfo
     THEN [error EXCEPT !.decorated = TRUE]
     ELSE error

SscIdle ==
  [pc |-> "idle", response |-> NoResponse, raised |-> <<>>,
   result |-> [st |-> "none", error |-> NoSemError]]

\* searchAgents(request): fetch is issued
SscCall ==
  /\ ssc.pc = "idle"
  /\ ssc' = [SscIdle EXCEPT !.pc = "fetch"]
  /\ UNCHANGED notClient

SscThrow(c, error) ==
  [c EXCEPT !.pc = "failed", !.raised = Append(@, error),
            !.result = [st |-> "error", error |-> OnSearchCatch(error)]]

\* fetch resolves with a response
SscFetchResolves ==
  /\ ssc.pc = "fetch"
  /\ \E status \in HttpStatuses, body \in Bodies,
        retryAfter \in RetryAfterHeaders, rateInfo \in BOOLEAN :
       LET response == HttpResponse(status, body, retryAfter, rateInfo)
           c == [ssc EXCEPT !.response = response]
       IN ssc' =
            IF status # 200
            THEN SscThrow(c, ErrorOfResponse(response))
            ELSE IF body.json
                 THEN [c EXCEPT !.pc = "done",
                                !.result = [st |-> "ok", error |-> NoSemError]]
                 ELSE SscThrow(c, SemError("SyntaxError", "", -1, NoRetryAfter, "json"))
  /\ UNCHANGED notClient

\* fetch rejects
SscFetchRejects ==
  /\ ssc.pc = "fetch"
  /\ \E error \in FetchRejections : ssc' = SscThrow(ssc, error)
  /\ UNCHANGED notClient

\* the caller has seen the outcome
SscFinish ==
  /\ ssc.pc \in {"done", "failed"}
  /\ ssc' = SscIdle
  /\ UNCHANGED notClient

(***************************************************************************)
(* SemanticSearchManager (semantic-search/manager.ts; its source is not    *)
(* part of the tree, the model follows the specification section 4.6 and   *)
(* the expectations of its unit tests, src/unnamed/part_005:146-214).      *)
(* Strings are sequences of tokens; the vector store is the set of its     *)
(* entries.                                                                *)
(***************************************************************************)
\* chain ids and agent ids as digit strings
SemChainIds == {<<"1">>, <<"1", "3", "7">>}

SemAgentIds == {<<"1", ":", "7">>, <<"1", "3", "7", ":", "7">>}

SemKey(chainId, agentId) == [chainId |-> chainId, agentId |-> agentId]

SemKeys == {SemKey(c, a) : c \in SemChainIds, a \in SemAgentIds}

\* SemanticAgentRecord: the key and the text that is embedded
SemRecords == [chainId : SemChainIds, agentId : SemAgentIds, name : {"n1", "n2"}]

\* `${chainId}-${agentId}`
formatVectorId(chainId, agentId) == chainId \o <<"-">> \o agentId

\* position of the first "-" of a vector id (0: none)
RECURSIVE DashAt(_, _)
DashAt(id, i) ==
  IF i > Len(id) THEN 0
  ELSE IF id[i] = "-" THEN i ELSE DashAt(id, i + 1)

\* parseVectorId: the part before the first "-" and the part after it
parseVectorId(id) ==
  LET i == DashAt(id, 1) IN
  [chainId |-> SubSeq(id, 1, i - 1), agentId |-> SubSeq(id, i + 1, Len(id))]

\* VectorUpsertItem of a record
SemItem(record) ==
  [id |-> formatVectorId(record.chainId, record.agentId), text |-> record.name]

\* mutant: upsert adds the item and keeps the entry already stored
VectorUpsert_Appends(store, item) == store \cup {item}

\* vectorStore.upsert(item)
VectorUpsert(store, item) == {e \in store : e.id # item.id} \cup {item}

\* vectorStore.delete(id)
VectorDelete(store, id) == {e \in store : e.id # id}

\* vectorStore.deleteMany(ids)
VectorDeleteMany(store, ids) ==
  {e \in store : \A i \in 1..Len(ids) : e.id # ids[i]}

\* bound on the number of keys of one deleteAgentsBatch call
MaxKeys == 2

RECURSIVE SeqsUpTo(_, _)
SeqsUpTo(S, n) ==
  IF n = 0 THEN {<<>>}
  ELSE SeqsUpTo(S, n - 1) \cup
       {Append(q, x) : q \in {r \in SeqsUpTo(S, n - 1) : Len(r) = n - 1}, x \in S}

SemKeySeqs == SeqsUpTo(SemKeys, MaxKeys) \ {<<>>}

SemIdsOf(keys) == [i \in 1..Len(keys) |-> formatVectorId(keys[i].chainId, keys[i].agentId)]

StoreCall(op, ids) == [op |-> op, ids |-> ids]

SemIdle ==
  [store |-> {}, pc |-> "idle", last |-> "none", hasDeleteMany |-> TRUE,
   records |-> <<>>, keys |-> <<>>, pending |-> <<>>, calls |-> <<>>,
   store0 |-> {}]

\* a manager operation begins: its history fields are reset
SemBegin(m, last) ==
  [m EXCEPT !.last = last, !.records = <<>>, !.keys = <<>>, !.pending = <<>>,
            !.calls = <<>>, !.store0 = m.store]

\* indexAgent(record): embed the record and upsert it under its vector id
SemIndexAgent ==
  /\ sem.pc = "idle"
  /\ \E record \in SemRecords :
       LET item == SemItem(record) IN
       sem' = [SemBegin(sem, "indexAgent") EXCEPT
                 !.records = <<record>>,
                 !.store = VectorUpsert(sem.store, item),
                 !.calls = <<StoreCall("upsert", <<item.id>>)>>]
  /\ UNCHANGED notSemantic

\* indexAgentsBatch(records): one upsertBatch of the records' items
SemIndexAgentsBatch ==
  /\ sem.pc = "idle"
  /\ \E r1 \in SemRecords, r2 \in {r \in SemRecords : r.name = "n2"} :
       LET i1 == SemItem(r1)
           i2 == SemItem(r2)
       IN
       sem' = [SemBegin(sem, "indexAgentsBatch") EXCEPT
                 !.records = <<r1, r2>>,
                 !.store = VectorUpsert(VectorUpsert(sem.store, i1), i2),
                 !.calls = <<StoreCall("upsertBatch", <<i1.id, i2.id>>)>>]
  /\ UNCHANGED notSemantic

\* deleteAgentsBatch(keys): deleteMany when the store has it, else the loop
\* of single deletes starts
SemDeleteAgentsBatchCall ==
  /\ sem.pc = "idle"
  /\ \E keys \in SemKeySeqs, hasDeleteMany \in BOOLEAN :
       LET m == [SemBegin(sem, "deleteAgentsBatch") EXCEPT
                   !.keys = keys, !.hasDeleteMany = hasDeleteMany]
           ids == SemIdsOf(keys)
       IN
       sem' = IF hasDeleteMany
              THEN [m EXCEPT !.store = VectorDeleteMany(sem.store, ids),
                             !.calls = <<StoreCall("deleteMany", ids)>>]
              ELSE [m EXCEPT !.pc = "deleting", !.pending = ids]
  /\ UNCHANGED notSemantic

\* mutant: the loop ends after its first delete
SemDeleteNext_DropsRest(m) ==
  [m EXCEPT !.store = VectorDelete(m.store, Head(m.pending)),
            !.calls = Append(@, StoreCall("delete", <<Head(m.pending)>>)),
            !.pending = <<>>,
            !.pc = "idle"]

\* one iteration of the fallback loop: await vectorStore.delete(id)
SemDeleteNext(m) ==
  [m EXCEPT !.store = VectorDelete(m.store, Head(m.pending)),
            !.calls = Append(@, StoreCall("delete", <<Head(m.pending)>>)),
            !.pending = Tail(@),
            !.pc = IF Len(m.pending) = 1 THEN "idle" ELSE "deleting"]

SemDeleteStep ==
  /\ sem.pc = "deleting"
  /\ sem' = SemDeleteNext(sem)
  /\ UNCHANGED notSemantic

(***************************************************************************)
(* SemanticSyncRunner (src/unnamed/part_008).  The subgraph, the semantic  *)
(* search manager and the state store are the runner's environment: the    *)
(* subgraph answers the query of fetchAgents, the others resolve or reject. *)
(***************************************************************************)
\* decimal digits in code unit order
Digits == <<"0", "1", "2", "3", "4", "5", "6", "7", "8", "9">>

DigitVal(ch) == (CHOOSE i \in 1..10 : Digits[i] = ch) - 1

\* the BigInt a decimal string denotes (the subgraph's view of updatedAt)
RECURSIVE NumOf(_)
NumOf(s) ==
  IF s = <<>> THEN 0
  ELSE 10 * NumOf(SubSeq(s, 1, Len(s) - 1)) + DigitVal(s[Len(s)])

\* a > b on JavaScript strings: code unit by code unit, a proper prefix is
\* the smaller one
RECURSIVE StrGreater(_, _)
StrGreater(a, b) ==
  IF a = <<>> THEN FALSE
  ELSE IF b = <<>> THEN TRUE
  ELSE IF Head(a) # Head(b) THEN DigitVal(Head(a)) > DigitVal(Head(b))
  ELSE StrGreater(Tail(a), Tail(b))

\* agent ids, in the order the subgraph lists agents of equal updatedAt
SyncAgentIds == <<"x", "y", "z">>

SyncIdSet == {SyncAgentIds[i] : i \in 1..Len(SyncAgentIds)}

IdRank(id) == CHOOSE i \in 1..Len(SyncAgentIds) : SyncAgentIds[i] = id

\* updatedAt values of the subgraph's agents
UpdatedAts == {<<"5">>, <<"9">>, <<"1", "0">>}

\* registrationFile: null, or a file
Files == {"none", "f1"}

\* one row of the subgraph
SubgraphAgent(id, updatedAt, file) ==
  [id |-> id, updatedAt |-> updatedAt, file |-> file]

\* what the subgraph holds for one id: nothing, or a row
RowChoices ==
  [present : {FALSE}, updatedAt : {<<"0">>}, file : {"none"}]
  \cup [present : {TRUE}, updatedAt : UpdatedAts, file : Files]

\* the agents a subgraph may hold: at most one row per id
Subgraphs ==
  {{SubgraphAgent(id, c[id].updatedAt, c[id].file) :
      id \in {i \in SyncIdSet : c[i].present}} :
     c \in [SyncIdSet -> RowChoices]}

NoHash == [file |-> "none", updatedAt |-> <<>>]

\* computeAgentHash(toSemanticAgentRecord(agent)): the record carries the
\* registration file's fields and metadata.updatedAt
computeAgentHash(agent) == [file |-> agent.file, updatedAt |-> agent.updatedAt]

SyncState(lastUpdatedAt, agentHashes) ==
  [lastUpdatedAt |-> lastUpdatedAt, agentHashes |-> agentHashes]

\* createEmptyState()
createEmptyState == SyncState(<<"0">>, [id \in SyncIdSet |-> NoHash])

\* what stateStore.load() resolves with: null, or the state saved by an
\* earlier run
NoStoredState == SyncState(Absent, [id \in SyncIdSet |-> NoHash])

LoadedStates ==
  {NoStoredState, SyncState(<<"5">>, [id \in SyncIdSet |-> NoHash])}

\* largest batchSize explored
MaxBatch == 2

BatchSizes == 1..MaxBatch

\* where: { updatedAt_gt: $updatedAfter }
UpdatedAfter(rows, updatedAfter) ==
  {a \in rows : NumOf(a.updatedAt) > NumOf(updatedAfter)}

\* orderBy: updatedAt, orderDirection: asc
RowBefore(a, b) ==
  \/ NumOf(a.updatedAt) < NumOf(b.updatedAt)
  \/ (a.updatedAt = b.updatedAt /\ IdRank(a.id) < IdRank(b.id))

RECURSIVE InOrder(_)
InOrder(rows) ==
  IF rows = {} THEN <<>>
  ELSE LET a == CHOOSE r \in rows : \A o \in rows \ {r} : RowBefore(r, o)
       IN <<a>> \o InOrder(rows \ {a})

\* the subgraph's answer to fetchAgents(updatedAfter, first)
fetchAgents(rows, updatedAfter, first) ==
  LET all == InOrder(UpdatedAfter(rows, updatedAfter)) IN
  SubSeq(all, 1, IF Len(all) < first THEN Len(all) ELSE first)

\* prepareAgents: the running maximum of updatedAt, compared as strings
RECURSIVE MaxUpdatedAt(_, _)
MaxUpdatedAt(agents, maxUpdatedAt) ==
  IF agents = <<>> THEN maxUpdatedAt
  ELSE MaxUpdatedAt(Tail(agents),
                    IF StrGreater(Head(agents).updatedAt, maxUpdatedAt)
                    THEN Head(agents).updatedAt ELSE maxUpdatedAt)

\* prepareAgents(agents, state)
prepareAgents(agents, state, includeOrphanedAgents) ==
  LET Orphan(a) == a.file = "none"
      Changed(a) == ~Orphan(a) /\ state.agentHashes[a.id] # computeAgentHash(a)
      Deleted(a) == Orphan(a) /\ includeOrphanedAgents
      Hashed(a) == Changed(a) \/ Deleted(a)
      touched == SelectSeq(agents, Hashed)
  IN [toIndex |-> SelectSeq(agents, Changed),
      toDelete |-> SelectSeq(agents, Deleted),
      hashes |-> [i \in 1..Len(touched) |->
                    [agentId |-> touched[i].id,
                     hash |-> IF Orphan(touched[i]) THEN NoHash
                              ELSE computeAgentHash(touched[i])]],
      maxUpdatedAt |-> MaxUpdatedAt(agents, state.lastUpdatedAt)]

\* for (const { agentId, hash } of hashes): set the hash, or delete the entry
RECURSIVE ApplyHashes(_, _)
ApplyHashes(agentHashes, hashes) ==
  IF hashes = <<>> THEN agentHashes
  ELSE ApplyHashes([agentHashes EXCEPT ![Head(hashes).agentId] = Head(hashes).hash],
                   Tail(hashes))

IdsOf(agents) == {agents[i].id : i \in 1..Len(agents)}

SyncIdle ==
  [pc |-> "idle", subgraph |-> {}, batchSize |-> 1,
   includeOrphanedAgents |-> TRUE,
   loaded |-> NoStoredState, state |-> createEmptyState, saved |-> NoStoredState,
   lastUpdatedAt |-> <<"0">>,
   agents |-> <<>>, previous |-> <<>>,
   toIndex |-> <<>>, toDelete |-> <<>>, hashes |-> <<>>,
   maxUpdatedAt |-> <<"0">>,
   written |-> {}, saves |-> 0,
   indexed |-> {}, deleted |-> {},
   error |-> NoError]

\* run(): load the state, then the first fetchAgents call
SyncRun ==
  /\ sync.pc = "idle"
  /\ \E rows \in Subgraphs, n \in BatchSizes, orphans \in BOOLEAN,
        stored \in LoadedStates :
       LET state == IF stored = NoStoredState THEN createEmptyState ELSE stored
       IN sync' = [SyncIdle EXCEPT
                     !.pc = "fetch", !.subgraph = rows, !.batchSize = n,
                     !.includeOrphanedAgents = orphans,
                     !.loaded = stored, !.saved = stored, !.state = state,
                     !.lastUpdatedAt = state.lastUpdatedAt]
  /\ UNCHANGED notSync

\* lines 85-97: hashes and cursor are written to the state, then save(state)
\* is awaited
Commit(s) ==
  [s EXCEPT !.state = SyncState(s.maxUpdatedAt,
                                ApplyHashes(s.state.agentHashes, s.hashes)),
            !.lastUpdatedAt = s.maxUpdatedAt,
            !.pc = "save"]

\* lines 81-83: the deletion, when there is one
AfterIndex(s) ==
  IF s.toDelete # <<>> THEN [s EXCEPT !.pc = "delete"] ELSE Commit(s)

\* mutant: the state is updated before the writes are awaited
AfterPrepare_CommitsFirst(s) ==
  LET c == Commit(s) IN
  IF s.toIndex # <<>> THEN [c EXCEPT !.pc = "index"]
  ELSE IF s.toDelete # <<>> THEN [c EXCEPT !.pc = "delete"]
  ELSE c

\* lines 78-80: the indexing, when there is something to index
AfterPrepare(s) ==
  IF s.toIndex # <<>> THEN [s EXCEPT !.pc = "index"] ELSE AfterIndex(s)

\* fetchAgents resolves: an empty batch ends the loop, any other is prepared
SyncFetchReturns ==
  /\ sync.pc = "fetch"
  /\ \E agents \in {fetchAgents(sync.subgraph, sync.lastUpdatedAt, sync.batchSize)} :
     \E p \in {prepareAgents(agents, sync.state, sync.includeOrphanedAgents)} :
     \E s \in {[sync EXCEPT
                  !.previous = sync.agents, !.agents = agents,
                  !.toIndex = p.toIndex, !.toDelete = p.toDelete,
                  !.hashes = p.hashes, !.maxUpdatedAt = p.maxUpdatedAt,
                  !.written = {}, !.saves = 0]} :
       sync' = IF agents = <<>>
               THEN [sync EXCEPT !.pc = "returned"]
               ELSE AfterPrepare(s)
  /\ UNCHANGED notSync

\* indexAgent / indexAgentsBatch resolves
SyncIndexReturns ==
  /\ sync.pc = "index"
  /\ \E s \in {[sync EXCEPT !.written = @ \cup {"index"},
                             !.indexed = @ \cup IdsOf(sync.toIndex)]} :
       sync' = AfterIndex(s)
  /\ UNCHANGED notSync

\* sdk.semanticDeleteAgentsBatch resolves
SyncDeleteReturns ==
  /\ sync.pc = "delete"
  /\ \E s \in {[sync EXCEPT !.written = @ \cup {"delete"},
                             !.deleted = @ \cup IdsOf(sync.toDelete)]} :
       sync' = Commit(s)
  /\ UNCHANGED notSync

\* stateStore.save resolves: the loop fetches the next batch
SyncSaveReturns ==
  /\ sync.pc = "save"
  /\ sync' = [sync EXCEPT !.saved = sync.state, !.saves = @ + 1, !.pc = "fetch"]
  /\ UNCHANGED notSync

\* an awaited call rejects: run() has no catch, the error leaves it
SyncCallThrows ==
  /\ sync.pc \in {"fetch", "index", "delete", "save"}
  /\ sync' = [sync EXCEPT !.pc = "threw", !.error = Err(503, sync.pc, 0)]
  /\ UNCHANGED notSync

\* run() is over
SyncFinish ==
  /\ sync.pc \in {"returned", "threw"}
  /\ sync' = SyncIdle
  /\ UNCHANGED notSync

\* retryAfter (seconds) an error thrown by fn may carry; NoHint: none
NoHint == 0

RetryAfterHints == {NoHint, 1, 2}

RxIdle ==
  [st |-> "idle", attempt |-> 0, invoked |-> 0, thrown |-> <<>>,
   hints |-> <<>>, delays |-> <<>>, outcome |-> NoError]

\* withRetry(fn) is called: the loop starts at attempt 1 and invokes fn
RxBegin ==
  /\ rx.st = "idle"
  /\ rx' = [rx EXCEPT !.st = "calling", !.attempt = 1, !.invoked = 1]
  /\ UNCHANGED notRetry

\* fn() resolves: `return await fn()`
RxFnReturns ==
  /\ rx.st = "calling"
  /\ rx' = [rx EXCEPT !.st = "returned"]
  /\ UNCHANGED notRetry

\* fn() rejects with an error of some status: the catch block
RxFnThrows ==
  /\ rx.st = "calling"
  /\ \E s \in ErrStatuses, retryAfter \in RetryAfterHints :
       LET error == Err(s, "fn", rx.attempt)
           r == [rx EXCEPT !.thrown = Append(@, error),
                           !.hints = Append(@, retryAfter)]
       IN
       rx' = IF ShouldRethrow(error, rx.attempt)
             THEN [r EXCEPT !.st = "threw", !.outcome = Rethrown(error)]
             ELSE [r EXCEPT !.st = "sleeping",
                            !.delays = Append(@, BackoffDelay(rx.attempt))]
  /\ UNCHANGED notRetry

\* the delay elapses: attempt += 1, loop test, next fn() or fall out of the loop
RxDelayElapsed ==
  /\ rx.st = "sleeping"
  /\ rx' = IF rx.attempt + 1 <= maxAttempts
           THEN [rx EXCEPT !.st = "calling", !.attempt = @ + 1, !.invoked = @ + 1]
           ELSE [rx EXCEPT !.st = "threw", !.attempt = @ + 1,
                           !.outcome = UnreachableError]
  /\ UNCHANGED notRetry

InitRetry ==
  /\ rx = RxIdle
  /\ tgtIn = NoTargetIn
  /\ tgtOut = NoTargetOut
  /\ call = [p \in Procs |-> IdleCall]
  /\ uaidByAgentId = [k \in AgentKeys |-> Absent]
  /\ firstBound = [k \in AgentKeys |-> Absent]
  /\ RegistryEmpty
  /\ sflow = IdleSearch
  /\ sync = SyncIdle
  /\ ssc = SscIdle
  /\ sem = SemIdle
  /\ snd = SndIdle
  /\ sdk = SdkIdle

NextRetry == RxBegin \/ RxFnReturns \/ RxFnThrows \/ RxDelayElapsed

SpecRetry == InitRetry /\ [][NextRetry]_vars

RxFinished == rx.st \in {"returned", "threw"}

RxAllAttemptsFailedTransient ==
  /\ Len(rx.thrown) = rx.invoked
  /\ \A i \in 1..Len(rx.thrown) : isRetryableBrokerError(rx.thrown[i])

\* C1: when every attempt of the wrapped call fails with a retryable error,
\* the call is invoked exactly maxAttempts = 3 times and the execution then
\* throws the very error object the last invocation threw.
C1_TransientExhausted ==
  (RxFinished /\ RxAllAttemptsFailedTransient) =>
    /\ rx.st = "threw"
    /\ rx.invoked = maxAttempts
    /\ Len(rx.thrown) = maxAttempts
    /\ rx.outcome = rx.thrown[maxAttempts]
    /\ rx.outcome.origin = "fn"

C1_Witness ==
  /\ rx.st = "threw"
  /\ rx.invoked = 3
  /\ RxAllAttemptsFailedTransient
  /\ rx.outcome = Err(503, "fn", 3)

InitTarget ==
  /\ rx = RxIdle
  /\ tgtIn \in [uaid : OptStrs, agentUrl : OptStrs]
  /\ tgtOut = NoTargetOut
  /\ call = [p \in Procs |-> IdleCall]
  /\ uaidByAgentId = [k \in AgentKeys |-> Absent]
  /\ firstBound = [k \in AgentKeys |-> Absent]
  /\ RegistryEmpty
  /\ sflow = IdleSearch
  /\ sync = SyncIdle
  /\ ssc = SscIdle
  /\ sem = SemIdle
  /\ snd = SndIdle
  /\ sdk = SdkIdle

TargetResolve ==
  /\ tgtOut.st = "none"
  /\ tgtOut' = resolveChatTarget(tgtIn)
  /\ UNCHANGED <<tgtIn, notTarget>>

NextTarget == TargetResolve

SpecTarget == InitTarget /\ [][NextTarget]_vars

NonBlank(v) == v # Absent /\ Trim(v) # <<>>

\* C8: a returned target carries exactly one of uaid / agentUrl, that value
\* is never blank, and when the argument has both a non-blank uaid and a
\* non-blank agentUrl the result is the (trimmed) uaid.
C8_TargetExactlyOne ==
  /\ tgtOut.st = "ok" =>
       /\ (tgtOut.uaid = Absent) # (tgtOut.agentUrl = Absent)
       /\ tgtOut.uaid # Absent => NonBlank(tgtOut.uaid)
       /\ tgtOut.agentUrl # Absent => NonBlank(tgtOut.agentUrl)
  /\ (tgtOut.st # "none" /\ NonBlank(tgtIn.uaid) /\ NonBlank(tgtIn.agentUrl)) =>
       /\ tgtOut.st = "ok"
       /\ tgtOut.uaid = Trim(tgtIn.uaid)
       /\ tgtOut.agentUrl = Absent

C8_Witness ==
  /\ tgtOut.st = "ok"
  /\ tgtIn.uaid = <<SP, "u", SP>>
  /\ tgtIn.agentUrl = <<"u", "u">>
  /\ tgtOut.uaid = <<"u">>

(***************************************************************************)
(* HashgraphRegistryBrokerChatAdapter.message                              *)
(* (src/src/adapters/registry-broker.ts:301-429)                           *)
(***************************************************************************)
SetCall(p, c) == call' = [call EXCEPT ![p] = c]

\* mutant: the uaid of the unrestricted search is dropped
ResolvedUaid_IgnoresFallback(uaidFromAdapter, uaidFromFallback) ==
  Coalesce(uaidFromAdapter, EmptyStr)

\* uaidFromAdapter ?? uaidFromFallback ?? ''
ResolvedUaid(uaidFromAdapter, uaidFromFallback) ==
  Coalesce(uaidFromAdapter, Coalesce(uaidFromFallback, EmptyStr))

\* message(request) up to its first network call.  For a new session on an
\* agentId, `cached` records the cache entry of that agentId at this moment
\* and `first` the uaid first bound to it (history).
MessageCall(p, Reqs) ==
  /\ call[p].pc = "idle"
  /\ \E r \in Reqs :
       LET sessionId == Coalesce(OptTrim(r.sessionId), EmptyStr)
           agentId == AgentIdOf(r)
           cached == CacheGet(uaidByAgentId, agentId)
           c0 == [IdleCall EXCEPT
                    !.kind = "message", !.req = r,
                    !.cached = IF agentId \in AgentKeys /\ ~Truthy(sessionId)
                               THEN uaidByAgentId[agentId] ELSE Absent,
                    !.first = IF agentId \in AgentKeys /\ ~Truthy(sessionId)
                              THEN firstBound[agentId] ELSE Absent]
       IN SetCall(p,
            IF Truthy(sessionId)
            THEN Resume(c0, sessionId)
            ELSE IF Truthy(agentId)
                 THEN IF Truthy(cached)
                      THEN Negotiate(c0, TargetOf(cached, Absent))
                      ELSE BeginOp(c0, "search1")
                 ELSE ResolveFromEndpoints(c0))
  /\ UNCHANGED <<uaidByAgentId, firstBound, notChat>>

\* this.uaidByAgentId.set(agentId, uaid); return { uaid }  and on to line 394
BindAndNegotiate(p, c, uaid) ==
  /\ uaidByAgentId' = [uaidByAgentId EXCEPT ![AgentIdOf(c.req)] = uaid]
  /\ firstBound' = [firstBound EXCEPT ![AgentIdOf(c.req)] =
                      IF @ = Absent THEN uaid ELSE @]
  /\ SetCall(p, Negotiate(c, TargetOf(uaid, Absent)))

\* search([ERC8004_DEFAULT_ADAPTER]) returns a parsed result
MessageSearch1Returns(p) ==
  /\ call[p].kind = "message"
  /\ call[p].pc = "search1"
  /\ \E hit \in SearchUaids :
       LET c == call[p]
           uaidFromAdapter == OptTrim(hit)
       IN IF Truthy(uaidFromAdapter)
          THEN BindAndNegotiate(p, [c EXCEPT !.uaid1 = uaidFromAdapter],
                                ResolvedUaid(uaidFromAdapter, Absent))
          ELSE /\ SetCall(p, BeginOp([c EXCEPT !.uaid1 = uaidFromAdapter], "search2"))
               /\ UNCHANGED <<uaidByAgentId, firstBound>>
  /\ UNCHANGED notChat

\* mutant: the uaid is stored before it is tested for emptiness
MessageSearch2Returns_StoresUnchecked(p) ==
  /\ call[p].kind = "message"
  /\ call[p].pc = "search2"
  /\ \E hit \in SearchUaids :
       LET uaidFromFallback == OptTrim(hit)
           c == [call[p] EXCEPT !.uaid2 = uaidFromFallback]
           uaid == ResolvedUaid(c.uaid1, uaidFromFallback)
       IN IF ~Truthy(uaid)
          THEN /\ SetCall(p, Fail(c, Err(NoStatus, "Unable to resolve broker UAID for agentId", 0)))
               /\ uaidByAgentId' = [uaidByAgentId EXCEPT ![AgentIdOf(c.req)] = uaid]
               /\ UNCHANGED firstBound
          ELSE BindAndNegotiate(p, c, uaid)
  /\ UNCHANGED notChat

\* search() without adapter restriction returns a parsed result
MessageSearch2Returns(p) ==
  /\ call[p].kind = "message"
  /\ call[p].pc = "search2"
  /\ \E hit \in SearchUaids :
       LET uaidFromFallback == OptTrim(hit)
           c == [call[p] EXCEPT !.uaid2 = uaidFromFallback]
           uaid == ResolvedUaid(c.uaid1, uaidFromFallback)
       IN IF ~Truthy(uaid)
          THEN /\ SetCall(p, Fail(c, Err(NoStatus, "Unable to resolve broker UAID for agentId", 0)))
               /\ UNCHANGED <<uaidByAgentId, firstBound>>
          ELSE BindAndNegotiate(p, c, uaid)
  /\ UNCHANGED notChat

\* requestJson returns a non-object payload: parseBrokerSearchResult throws
MessageSearchBadPayload(p) ==
  /\ call[p].kind = "message"
  /\ call[p].pc \in {"search1", "search2"}
  /\ SetCall(p, Fail(call[p], Err(NoStatus, "Registry Broker search returned a non-object payload", 0)))
  /\ UNCHANGED <<uaidByAgentId, firstBound, notChat>>

\* mutant: the plaintext fallback is taken whatever the preference
MessageOnThrow_AlwaysFallsBack(c, error) ==
  IF c.pc = "start"
  THEN BeginOp([c EXCEPT !.startErr = error], "create")
  ELSE Fail(c, error)

\* mutant: when the plaintext fallback fails the negotiation error is thrown
MessageOnThrow_SurfacesStartError(c, error) ==
  IF c.pc = "start"
  THEN LET c1 == [c EXCEPT !.startErr = error] IN
       IF Preference(c.req) = "required" THEN Fail(c1, error)
       ELSE BeginOp(c1, "create")
  ELSE IF c.pc = "create" /\ c.startErr # NoError
       THEN Fail(c, c.startErr)
       ELSE Fail(c, error)

\* mutant: a failed plaintext fallback starts the negotiation over
MessageOnThrow_Renegotiates(c, error) ==
  IF c.pc = "start"
  THEN LET c1 == [c EXCEPT !.startErr = error] IN
       IF Preference(c.req) = "required" THEN Fail(c1, error)
       ELSE BeginOp(c1, "create")
  ELSE IF c.pc = "create" /\ c.startErr # NoError
       THEN BeginOp([c EXCEPT !.calls = [o \in Ops |-> 0],
                              !.startErr = NoError], "start")
       ELSE Fail(c, error)

\* what message() does with the error a withRetry execution ended with
MessageOnThrow(c, error) ==
  IF c.pc = "start"
  THEN LET c1 == [c EXCEPT !.startErr = error] IN
       IF Preference(c.req) = "required" THEN Fail(c1, error)
       ELSE BeginOp(c1, "create")
  ELSE Fail(c, error)

\* the awaited network call rejects: withRetry's catch block, the delay and
\* the next fn() when the error is retried
MessageOpThrows(p, Statuses) ==
  /\ call[p].kind = "message"
  /\ call[p].pc \in {"search1", "search2", "start", "create"}
  /\ \E s \in Statuses :
       LET c == call[p]
           error == Err(s, c.pc, c.attempt)
       IN SetCall(p,
            IF ShouldRethrow(error, c.attempt)
            THEN MessageOnThrow(c, Rethrown(error))
            ELSE IF c.attempt + 1 <= maxAttempts
                 THEN [c EXCEPT !.attempt = @ + 1, !.calls[c.pc] = @ + 1]
                 ELSE MessageOnThrow(c, UnreachableError))
  /\ UNCHANGED <<uaidByAgentId, firstBound, notChat>>

\* client.chat.start resolves with a handle
MessageStartReturns(p) ==
  /\ call[p].kind = "message"
  /\ call[p].pc = "start"
  /\ \E handle \in StartHandles :
       LET h == mapConversationHandle(handle) IN
       SetCall(p, Return([call[p] EXCEPT !.startHandle = handle],
                         h.sessionId, h.mode))
  /\ UNCHANGED <<uaidByAgentId, firstBound, notChat>>

\* client.chat.createSession resolves
MessageCreateReturns(p) ==
  /\ call[p].kind = "message"
  /\ call[p].pc = "create"
  /\ \E sid \in CreateSessionIds :
       LET c == [call[p] EXCEPT !.sid = sid]
           createdSessionId == Coalesce(OptTrim(sid), EmptyStr)
       IN SetCall(p,
            IF ~Truthy(createdSessionId)
            THEN Fail(c, Err(NoStatus, "Registry Broker createSession did not return a sessionId", 0))
            ELSE LET h == createPlaintextHandle(createdSessionId) IN
                 Return(c, h.sessionId, h.mode))
  /\ UNCHANGED <<uaidByAgentId, firstBound, notChat>>

\* the caller has its handle or its error; the flow's slot is free again
Finish(p) ==
  /\ call[p].pc \in {"done", "failed"}
  /\ SetCall(p, IdleCall)
  /\ UNCHANGED <<uaidByAgentId, firstBound, notChat>>

(***************************************************************************)
(* RegistryBroker.chat (src/src/core/registry-broker.ts:273-323, 387-429)  *)
(* No call of this class goes through withRetry.                           *)
(***************************************************************************)
\* chat(options) up to its first network call
ChatCall(p) ==
  /\ call[p].pc = "idle"
  /\ \E r \in ChatRequests :
       LET uaid == Trim(r.uaid)
           c0 == [IdleCall EXCEPT !.kind = "chat", !.req = r,
                                  !.target = TargetOf(uaid, Absent)]
       IN SetCall(p,
            IF ~Truthy(uaid)
            THEN Fail(c0, Err(NoStatus, "uaid is required for ERC-8004 chat", 0))
            ELSE IF Preference(r) # "disabled"
                 THEN BeginOp(c0, "start")
                 ELSE BeginOp(c0, "create"))
  /\ UNCHANGED <<uaidByAgentId, firstBound, notChat>>

\* client.chat.start resolves: handle.send is called next
ChatStartReturns(p) ==
  /\ call[p].kind = "chat"
  /\ call[p].pc = "start"
  /\ \E handle \in StartHandles :
       SetCall(p, BeginOp([call[p] EXCEPT !.startHandle = handle], "hsend"))
  /\ UNCHANGED <<uaidByAgentId, firstBound, notChat>>

\* handle.send resolves: { sessionId: handle.sessionId, response, mode: handle.mode }
ChatHandleSendReturns(p) ==
  /\ call[p].kind = "chat"
  /\ call[p].pc = "hsend"
  /\ SetCall(p, Return(call[p], call[p].startHandle.sessionId,
                       call[p].startHandle.mode))
  /\ UNCHANGED <<uaidByAgentId, firstBound, notChat>>

\* a network call of chat() rejects
ChatOpThrows(p) ==
  /\ call[p].kind = "chat"
  /\ call[p].pc \in {"start", "hsend", "create", "send"}
  /\ \E s \in BrokerErrStatuses :
       LET c == call[p]
           error == Err(s, c.pc, c.attempt)
       IN SetCall(p,
            IF c.pc \in {"start", "hsend"}
            THEN LET c1 == [c EXCEPT !.startErr = error] IN
                 IF Preference(c.req) = "required" THEN Fail(c1, error)
                 ELSE BeginOp(c1, "create")
            ELSE Fail(c, error))
  /\ UNCHANGED <<uaidByAgentId, firstBound, notChat>>

\* startErc8004Session resolves: sendErc8004Message validates, then sends
ChatCreateReturns(p) ==
  /\ call[p].kind = "chat"
  /\ call[p].pc = "create"
  /\ \E sid \in CreateSessionIds :
       LET sessionId == Coalesce(sid, EmptyStr)
           c == [call[p] EXCEPT !.sid = sessionId]
       IN SetCall(p,
            IF Trim(sessionId) = EmptyStr
            THEN Fail(c, Err(NoStatus, "sessionId is required for ERC-8004 messages", 0))
            ELSE IF Trim(c.req.message) = EmptyStr
                 THEN Fail(c, Err(NoStatus, "message is required for ERC-8004 messages", 0))
                 ELSE BeginOp(c, "send"))
  /\ UNCHANGED <<uaidByAgentId, firstBound, notChat>>

\* client.chat.sendMessage resolves: { sessionId, response, mode: 'plaintext' }
ChatSendReturns(p) ==
  /\ call[p].kind = "chat"
  /\ call[p].pc = "send"
  /\ SetCall(p, Return(call[p], call[p].sid, "plaintext"))
  /\ UNCHANGED <<uaidByAgentId, firstBound, notChat>>

InitChat ==
  /\ rx = RxIdle
  /\ tgtIn = NoTargetIn
  /\ tgtOut = NoTargetOut
  /\ call = [p \in Procs |-> IdleCall]
  /\ uaidByAgentId = [k \in AgentKeys |-> Absent]
  /\ firstBound = [k \in AgentKeys |-> Absent]
  /\ RegistryEmpty
  /\ sflow = IdleSearch
  /\ sync = SyncIdle
  /\ ssc = SscIdle
  /\ sem = SemIdle
  /\ snd = SndIdle
  /\ sdk = SdkIdle

Next ==
  \/ MessageCall(MainProc, MessageRequests)
  \/ MessageSearch1Returns(MainProc)
  \/ MessageSearch2Returns(MainProc)
  \/ MessageSearchBadPayload(MainProc)
  \/ MessageOpThrows(MainProc, BrokerErrStatuses)
  \/ MessageStartReturns(MainProc)
  \/ MessageCreateReturns(MainProc)
  \/ ChatCall(MainProc)
  \/ ChatStartReturns(MainProc)
  \/ ChatHandleSendReturns(MainProc)
  \/ ChatOpThrows(MainProc)
  \/ ChatCreateReturns(MainProc)
  \/ ChatSendReturns(MainProc)
  \/ Finish(MainProc)

Spec == InitChat /\ [][Next]_vars

\* several message() calls in flight on one adapter instance: every await is
\* a point where another flow may run
NextRace ==
  \E p \in Procs :
    \/ MessageCall(p, RacingRequests)
    \/ MessageSearch1Returns(p)
    \/ MessageSearch2Returns(p)
    \/ MessageOpThrows(p, RacingErrStatuses)
    \/ MessageCreateReturns(p)
    \/ Finish(p)

SpecRace == InitChat /\ [][NextRace]_vars

(***************************************************************************)
(* Properties of the chat flows                                            *)
(***************************************************************************)
\* the flow resumes an existing session (message() with a non-blank sessionId)
IsResume(c) == c.kind = "message" /\ NonBlank(c.req.sessionId)

\* the flow opens a new session
IsNewSession(c) == c.kind \in {"message", "chat"} /\ ~IsResume(c)

NetworkCalls(c) ==
  c.calls["search1"] + c.calls["search2"] + c.calls["start"]
    + c.calls["create"] + c.calls["hsend"] + c.calls["send"]

PlaintextHandle(c) == c.result.st = "handle" /\ c.result.mode = "plaintext"

\* C3: with preference = required, once the encrypted negotiation has ended
\* in an error the flow has failed with exactly that error, createSession
\* (and the plaintext send) was never invoked and no handle is returned.
C3_RequiredNeverFallsBack ==
  \A p \in Procs :
    LET c == call[p] IN
    (IsNewSession(c) /\ Preference(c.req) = "required" /\ c.startErr # NoError) =>
      /\ c.pc = "failed"
      /\ c.result.st = "error"
      /\ c.result.error = c.startErr
      /\ c.calls["create"] = 0
      /\ c.calls["send"] = 0

C3_Witness ==
  \E p \in Procs :
    /\ call[p].kind = "message"
    /\ call[p].req.preference = "required"
    /\ call[p].startErr = Err(503, "start", 3)
    /\ call[p].calls["start"] = 3
    /\ call[p].pc = "failed"

FellBackAfterError(c) ==
  /\ IsNewSession(c)
  /\ Preference(c.req) = "preferred"
  /\ c.startErr # NoError

\* C4 as stated: preferred, the encrypted negotiation failed and createSession
\* succeeded with a non-empty sessionId: the flow ends with a plaintext
\* session and no error.
C4_AsStated ==
  \A p \in Procs :
    LET c == call[p] IN
    (FellBackAfterError(c) /\ c.pc \in {"done", "failed"}
       /\ c.sid # Absent /\ c.sid # EmptyStr) =>
      (PlaintextHandle(c) /\ c.result.error = NoError)

\* C4 amended: preferred, the encrypted negotiation failed and createSession
\* succeeded with a sessionId that is non-blank (non-empty after trimming):
\* message() returns a plaintext handle on the trimmed sessionId and no
\* error; RegistryBroker.chat then makes its plaintext send and returns a
\* plaintext result, the only errors it can still surface being those of
\* that send.
C4_PreferredFallsBackToPlaintext ==
  \A p \in Procs :
    LET c == call[p] IN
    (FellBackAfterError(c) /\ NonBlank(c.sid)) =>
      IF c.kind = "message"
      THEN /\ c.pc = "done"
           /\ PlaintextHandle(c)
           /\ c.result.sessionId = Trim(c.sid)
           /\ c.result.error = NoError
      ELSE \/ c.pc = "send"
           \/ c.pc = "done" /\ PlaintextHandle(c) /\ c.result.sessionId = c.sid
           \/ /\ c.pc = "failed"
              /\ c.result.error.origin
                   \in {"send", "message is required for ERC-8004 messages"}

C4_Witness ==
  \E p \in Procs :
    /\ call[p].kind = "message"
    /\ call[p].req.preference = "preferred"
    /\ call[p].startErr = Err(400, "start", 1)
    /\ call[p].sid = <<"s", SP>>
    /\ call[p].pc = "done"
    /\ call[p].result.sessionId = <<"s">>
    /\ call[p].result.mode = "plaintext"

\* C5: a new session opened with preference = disabled never invokes
\* chat.start (nor an encrypted send); once its target is known the call it
\* makes is createSession, and a session it returns is plaintext.
C5_DisabledSkipsEncryptedStart ==
  \A p \in Procs :
    LET c == call[p] IN
    (IsNewSession(c) /\ Preference(c.req) = "disabled") =>
      /\ c.calls["start"] = 0
      /\ c.calls["hsend"] = 0
      /\ c.pc \notin {"start", "hsend"}
      /\ (c.target # NoTargetIn /\ c.pc # "failed") => c.calls["create"] >= 1
      /\ c.pc = "done" => (PlaintextHandle(c) /\ c.calls["create"] >= 1)

C5_Witness ==
  \E p \in Procs :
    /\ call[p].kind = "message"
    /\ call[p].req.preference = "disabled"
    /\ call[p].target = TargetOf(Absent, <<"x">>)
    /\ call[p].calls["create"] = 1
    /\ call[p].calls["start"] = 0
    /\ call[p].pc = "done"
    /\ call[p].result.mode = "plaintext"

\* C6: message() with a non-blank sessionId makes no network call; with
\* preference preferred, disabled or unset it returns a plaintext handle on
\* the trimmed sessionId, with required it fails and returns no handle.
C6_ResumeSkipsNegotiation ==
  \A p \in Procs :
    LET c == call[p] IN
    IsResume(c) =>
      /\ NetworkCalls(c) = 0
      /\ IF c.req.preference = "required"
         THEN c.pc = "failed" /\ c.result.st = "error"
         ELSE /\ c.pc = "done"
              /\ PlaintextHandle(c)
              /\ c.result.sessionId = Trim(c.req.sessionId)

C6_Witness ==
  \E p \in Procs :
    /\ call[p].kind = "message"
    /\ call[p].req.sessionId = <<SP, "s">>
    /\ call[p].req.preference = "unset"
    /\ call[p].pc = "done"
    /\ call[p].result.sessionId = <<"s">>

HasEndpoint(req) == NonBlank(req.a2aEndpoint) \/ NonBlank(req.mcpEndpoint)

\* C9: target resolution fails for want of a uaid or an endpoint only when
\* the agent handle has no non-blank a2a or mcp endpoint.
C9_FallsBackToEndpoint ==
  \A p \in Procs :
    LET c == call[p] IN
    (c.kind = "message" /\ c.pc = "failed"
       /\ c.result.error.origin \in
            {"Unable to resolve broker UAID for agentId",
             "Agent does not have an agentId or a chat-capable endpoint"}) =>
      ~HasEndpoint(c.req)

\* C10 as stated: once a search hit has bound an agentId to a uaid u, every
\* resolution of that agentId started later yields exactly u and issues no
\* search request.
C10_AsStated ==
  \A p \in Procs :
    LET c == call[p] IN
    (c.kind = "message" /\ c.first # Absent) =>
      /\ c.target = TargetOf(c.first, Absent)
      /\ c.calls["search1"] = 0
      /\ c.calls["search2"] = 0

\* C10 amended: a resolution started after a search hit has bound its
\* agentId yields exactly the uaid the cache holds for that agentId at that
\* moment, issues no search request and goes straight on to the negotiation;
\* that uaid is the one first bound unless a resolution already in flight
\* when it was stored has since stored the uaid of its own search hit.
C10_CacheHitNoIO ==
  \A p \in Procs :
    LET c == call[p] IN
    (c.kind = "message" /\ c.cached # Absent) =>
      /\ c.target = TargetOf(c.cached, Absent)
      /\ c.calls["search1"] = 0
      /\ c.calls["search2"] = 0
      /\ c.pc \notin {"search1", "search2"}

C10_Witness ==
  \E p \in Procs :
    /\ call[p].kind = "message"
    /\ call[p].req.agentId = <<"a", SP>>
    /\ call[p].cached = <<"v">>
    /\ call[p].target = TargetOf(<<"v">>, Absent)
    /\ call[p].calls["search1"] = 0
    /\ call[p].pc = "done"

\* the flow resolves a non-blank agentId that had no cache entry when it began
IsCacheMiss(c) ==
  /\ c.kind = "message"
  /\ ~IsResume(c)
  /\ Truthy(AgentIdOf(c.req))
  /\ c.cached = Absent

ResolutionErrors ==
  {"Unable to resolve broker UAID for agentId",
   "Registry Broker search returned a non-object payload",
   "search1", "search2"}

C12_AsStated ==
  [][\A k \in AgentKeys :
       uaidByAgentId[k] # Absent => uaidByAgentId'[k] = uaidByAgentId[k]]_vars

\* C12 amended: a cache entry, once stored, is never removed and always
\* holds a non-blank uaid; no resolution that began after the entry was
\* stored replaces it.  It is replaced only by a resolution of the same
\* agentId that had missed the cache before the entry was stored and was
\* still awaiting its search: that resolution stores the uaid of its own
\* search hit, which becomes its target.
C12_CacheEntryKept ==
  [][\A k \in AgentKeys :
       uaidByAgentId[k] # Absent =>
         /\ NonBlank(uaidByAgentId'[k])
         /\ uaidByAgentId'[k] # uaidByAgentId[k] =>
              \E p \in Procs :
                /\ IsCacheMiss(call[p])
                /\ AgentIdOf(call[p].req) = k
                /\ call[p].pc \in {"search1", "search2"}
                /\ call'[p].target = TargetOf(uaidByAgentId'[k], Absent)]_vars

C12_Witness ==
  /\ firstBound[<<"a">>] = <<"u">>
  /\ uaidByAgentId[<<"a">>] = <<"v">>
  /\ \E p \in Procs :
       /\ IsCacheMiss(call[p])
       /\ call[p].target = TargetOf(<<"v">>, Absent)

(***************************************************************************)
(* AgentAdapterRegistry: any sequence of registrations                     *)
(***************************************************************************)
InitRegistry ==
  /\ rx = RxIdle
  /\ tgtIn = NoTargetIn
  /\ tgtOut = NoTargetOut
  /\ call = [p \in Procs |-> IdleCall]
  /\ uaidByAgentId = [k \in AgentKeys |-> Absent]
  /\ firstBound = [k \in AgentKeys |-> Absent]
  /\ RegistryEmpty
  /\ sflow = IdleSearch
  /\ sync = SyncIdle
  /\ ssc = SscIdle
  /\ sem = SemIdle
  /\ snd = SndIdle
  /\ sdk = SdkIdle

NextRegistry == registerSearchAdapter \/ registerChatAdapter

SpecRegistry == InitRegistry /\ [][NextRegistry]_vars

Caps == {"search", "chat"}

DirGet(cap, id) ==
  IF cap = "search" THEN getSearchAdapter(id) ELSE getChatAdapter(id)

DirList(cap) ==
  IF cap = "search" THEN listSearchAdapters ELSE listChatAdapters

Directory(cap) == IF cap = "search" THEN searchAdapters ELSE chatAdapters

\* positions in the log of the registrations made under cap with this id
RegsOf(log, cap, id) ==
  {i \in 1..Len(log) : log[i].cap = cap /\ log[i].adapter.id = id}

\* the adapter of the latest registration under cap with this id
LastRegistered(log, cap, id) ==
  IF RegsOf(log, cap, id) = {} THEN NoAdapter
  ELSE log[CHOOSE i \in RegsOf(log, cap, id) :
             \A j \in RegsOf(log, cap, id) : j <= i].adapter

Occurrences(keys, id) == Cardinality({i \in 1..Len(keys) : keys[i] = id})

KeySet(keys) == {keys[i] : i \in 1..Len(keys)}

RemoveAt(log, i) == SubSeq(log, 1, i - 1) \o SubSeq(log, i + 1, Len(log))

SwapAt(log, i) ==
  [n \in 1..Len(log) |->
     IF n = i THEN log[i + 1] ELSE IF n = i + 1 THEN log[i] ELSE log[n]]

\* the directory of cap a fresh registry holds after the registrations of log
RECURSIVE Replay(_, _)
Replay(log, cap) ==
  IF log = <<>> THEN <<>>
  ELSE LET before == Replay(SubSeq(log, 1, Len(log) - 1), cap)
           last == log[Len(log)]
       IN IF last.cap = cap THEN MapSet(before, last.adapter.id, last.adapter)
          ELSE before

\* C13: in each capability's directory get(id) returns the adapter of the
\* latest registration under that id (nothing when there was none) and a
\* registered id is listed exactly once; when two registrations in a row use
\* the same capability and id, the directory is the one the registrations
\* without the first of the two produce.
C13_LastWriteWins ==
  \A cap \in Caps :
    /\ \A id \in AdapterIds :
         /\ DirGet(cap, id) = LastRegistered(regLog, cap, id)
         /\ Occurrences(DirList(cap), id) =
              IF RegsOf(regLog, cap, id) = {} THEN 0 ELSE 1
    /\ Len(DirList(cap)) = Len(Directory(cap))
    /\ \A i \in 1..(Len(regLog) - 1) :
         (/\ regLog[i].cap = cap
          /\ regLog[i + 1].cap = cap
          /\ regLog[i].adapter.id = regLog[i + 1].adapter.id) =>
           Directory(cap) = Replay(RemoveAt(regLog, i), cap)

C13_Witness ==
  /\ regLog = <<[cap |-> "chat", adapter |-> [id |-> "i", obj |-> "A"]],
                [cap |-> "chat", adapter |-> [id |-> "i", obj |-> "B"]]>>
  /\ getChatAdapter("i") = [id |-> "i", obj |-> "B"]
  /\ listChatAdapters = <<"i">>

\* C14: when two registrations in a row differ in id or in capability, the
\* registry the other order produces gives the same get result for every id
\* and lists the same set of ids in each capability; and each capability's
\* directory holds exactly the ids registered under that capability, so a
\* registration under one capability leaves the other directory as it was.
C14_DistinctIdsCommute ==
  /\ \A i \in 1..(Len(regLog) - 1) :
       (\/ regLog[i].adapter.id # regLog[i + 1].adapter.id
        \/ regLog[i].cap # regLog[i + 1].cap) =>
         \A cap \in Caps :
           LET other == Replay(SwapAt(regLog, i), cap) IN
           /\ \A id \in AdapterIds : MapGet(other, id) = DirGet(cap, id)
           /\ KeySet(MapKeys(other)) = KeySet(DirList(cap))
  /\ \A cap \in Caps :
       /\ KeySet(DirList(cap)) =
            {id \in AdapterIds : RegsOf(regLog, cap, id) # {}}
       /\ \A id \in AdapterIds :
            RegsOf(regLog, cap, id) = {} => DirGet(cap, id) = NoAdapter

C14_Witness ==
  /\ regLog = <<[cap |-> "search", adapter |-> [id |-> "i", obj |-> "A"]],
                [cap |-> "search", adapter |-> [id |-> "j", obj |-> "B"]],
                [cap |-> "chat", adapter |-> [id |-> "k", obj |-> "A"]]>>
  /\ listSearchAdapters = <<"i", "j">>
  /\ MapKeys(Replay(SwapAt(regLog, 1), "search")) = <<"j", "i">>
  /\ listChatAdapters = <<"k">>

(***************************************************************************)
(* Search flows, one call at a time                                        *)
(***************************************************************************)
InitSearch ==
  /\ rx = RxIdle
  /\ tgtIn = NoTargetIn
  /\ tgtOut = NoTargetOut
  /\ call = [p \in Procs |-> IdleCall]
  /\ uaidByAgentId = [k \in AgentKeys |-> Absent]
  /\ firstBound = [k \in AgentKeys |-> Absent]
  /\ RegistryEmpty
  /\ sflow = IdleSearch
  /\ sync = SyncIdle
  /\ ssc = SscIdle
  /\ sem = SemIdle
  /\ snd = SndIdle
  /\ sdk = SdkIdle

NextSearch ==
  \/ AdapterSearchCall
  \/ SearchBrokerReturns
  \/ SearchBrokerThrows
  \/ AdapterVectorSearchCall
  \/ AdapterVectorSearchReturns
  \/ AdapterVectorSearchThrows
  \/ FacadeSearchCall
  \/ ClientSearchReturns
  \/ ClientSearchThrows
  \/ FacadeVectorSearchCall
  \/ FacadeVectorSearchReturns
  \/ FacadeVectorSearchThrows
  \/ SearchFinish

SpecSearch == InitSearch /\ [][NextSearch]_vars

\* the adapter's search() was called without an adapter list and its registry
\* resolved to the default registry
IsDefaultScope(f) ==
  /\ f.kind = "adapterSearch"
  /\ f.options.adapters = Absent
  /\ f.registry = ERC8004_DEFAULT_REGISTRY

\* the k-th searchBroker call of the flow has returned a payload that parsed
SearchCompleted(f, k) ==
  Len(f.returned) >= k /\ parseBrokerSearchResult(f.returned[k]).st = "ok"

ParsedHits(f, k) == parseBrokerSearchResult(f.returned[k]).hits

\* C15: with no adapter list and the default registry, the first search is
\* the one restricted to the default adapter; a second search is made exactly
\* when the first one completed with zero hits, it carries no adapter
\* restriction and there is never a third; when the first search returns at
\* least one hit the call returns exactly those hits (mapped one to one, in
\* order) and makes no second search.
C15_TwoPhasePrefilter ==
  IsDefaultScope(sflow) =>
    /\ Len(sflow.searches) \in {1, 2}
    /\ sflow.searches[1].adapters = <<ERC8004_DEFAULT_ADAPTER>>
    /\ Len(sflow.searches) = 2 <=>
         (SearchCompleted(sflow, 1) /\ Len(ParsedHits(sflow, 1)) = 0)
    /\ Len(sflow.searches) = 2 =>
         /\ sflow.searches[2].adapters = Absent
         /\ sflow.searches[2] =
              [sflow.searches[1] EXCEPT !.adapters = Absent]
    /\ (SearchCompleted(sflow, 1) /\ Len(ParsedHits(sflow, 1)) > 0) =>
         /\ sflow.pc = "done"
         /\ Len(sflow.searches) = 1
         /\ Len(sflow.result.hits) = Len(ParsedHits(sflow, 1))
         /\ \A i \in 1..Len(sflow.result.hits) :
              sflow.result.hits[i].from = ParsedHits(sflow, 1)[i]

C15_Witness ==
  /\ IsDefaultScope(sflow)
  /\ Len(sflow.returned) = 2
  /\ sflow.returned[1] = Payload(TRUE, TRUE, <<HitNoId>>)
  /\ Len(sflow.searches) = 2
  /\ sflow.searches[2].adapters = Absent
  /\ sflow.pc = "done"
  /\ Len(sflow.result.hits) = 2

\* C16: the first search request of search() and the request of
\* searchErc8004Agents carry the default adapter id exactly when the caller
\* gave no adapter list and the registry resolved to the default registry;
\* otherwise they carry the caller's adapter list as given (none when none
\* was given).  A call with an adapter list or a non-default registry makes a
\* single search.
C16_DefaultAdapterScope ==
  (sflow.kind \in {"adapterSearch", "facadeSearch"}) =>
    LET first == sflow.searches[1]
        unset == sflow.options.adapters = Absent
        default == first.registry = ERC8004_DEFAULT_REGISTRY
    IN
    /\ (first.adapters = <<ERC8004_DEFAULT_ADAPTER>>) <=> (unset /\ default)
    /\ ~(unset /\ default) =>
         /\ first.adapters = sflow.options.adapters
         /\ Len(sflow.searches) = 1
    /\ sflow.kind = "facadeSearch" => Len(sflow.searches) = 1
    /\ first.registry =
         IF sflow.options.registry # Undefined THEN sflow.options.registry
         ELSE IF sflow.kind = "adapterSearch"
                   /\ FirstRegistry(sflow.options.registries) # Undefined
              THEN sflow.options.registries[1]
              ELSE ERC8004_DEFAULT_REGISTRY

C16_Witness ==
  /\ sflow.kind = "adapterSearch"
  /\ sflow.options.adapters = Absent
  /\ sflow.options.registry = Undefined
  /\ sflow.options.registries = <<"other">>
  /\ sflow.searches[1].adapters = Absent
  /\ sflow.returned = <<Payload(TRUE, TRUE, <<>>)>>
  /\ sflow.pc = "done"
  /\ Len(sflow.searches) = 1

(***************************************************************************)
(* One searchAgents() call on arbitrary filters                            *)
(***************************************************************************)
InitChains ==
  /\ rx = RxIdle
  /\ tgtIn = NoTargetIn
  /\ tgtOut = NoTargetOut
  /\ call = [p \in Procs |-> IdleCall]
  /\ uaidByAgentId = [k \in AgentKeys |-> Absent]
  /\ firstBound = [k \in AgentKeys |-> Absent]
  /\ RegistryEmpty
  /\ sflow = IdleSearch
  /\ sync = SyncIdle
  /\ ssc = SscIdle
  /\ sem = SemIdle
  /\ snd = SndIdle
  /\ \E home \in HomeChains, filter \in ChainsInputs, query \in {Undefined, "q"} :
       sdk = [SdkIdle EXCEPT !.home = home, !.filter = filter, !.query = query]

NextChains == SdkSearchAgents

SpecChains == InitChains /\ [][NextChains]_vars

NoDuplicates(list) ==
  \A i, j \in 1..Len(list) : list[i] = list[j] => i = j

\* C17: a search whose chains are unset covers chain 1 and the SDK's own
\* chain, chain 1 first and neither twice ([1] when the SDK's chain is 1),
\* on the keyword and on the non-keyword path alike; chains given by the
\* caller are the chains searched, unchanged.
C17_DefaultChains ==
  sdk.pc = "done" =>
    /\ sdk.path \in {"keyword", "non-keyword"}
    /\ ~sdk.filter.given =>
         /\ sdk.chains = IF sdk.home = 1 THEN <<1>> ELSE <<1, sdk.home>>
         /\ NoDuplicates(sdk.chains)
    /\ sdk.filter.given => sdk.chains = sdk.filter.list

C17_Witness ==
  /\ sdk.pc = "done"
  /\ sdk.path = "non-keyword"
  /\ ~sdk.filter.given
  /\ sdk.home = 137
  /\ sdk.chains = <<1, 137>>

\* vectorSearchErc8004 is running (or has run) and its vector search threw
VectorSearchFailed(f) == f.kind = "facadeVector" /\ f.vectorErr # NoError

\* C18: when the vector search of vectorSearchErc8004 throws, the keyword
\* search (searchErc8004Agents) is called with the query, registry, protocols
\* and limit of the vector request; the call returns the keyword search's
\* hits, one result hit per keyword hit, or fails with the keyword search's
\* own error, never with the vector search's.
C18_VectorSearchBestEffort ==
  VectorSearchFailed(sflow) =>
    LET request == sflow.searches[1]
        keyword == sflow.searches[2]
    IN
    /\ Len(sflow.searches) = 2
    /\ request.op = "vectorSearch"
    /\ keyword.op = "search"
    /\ sflow.fallbackOptions.query = request.q
    /\ sflow.fallbackOptions.registry = request.registry
    /\ sflow.fallbackOptions.protocols = request.protocols
    /\ sflow.fallbackOptions.limit = request.limit
    /\ keyword.q = sflow.options.query
    /\ keyword.registry = request.registry
    /\ keyword.protocols = request.protocols
    /\ keyword.limit = IF request.limit = NoLimit THEN DefaultLimit ELSE request.limit
    /\ sflow.pc \in {"csearch", "done", "failed"}
    /\ sflow.result.error # sflow.vectorErr
    /\ sflow.pc = "failed" => sflow.result.error.origin = "search"
    /\ sflow.pc = "done" =>
         /\ Len(sflow.returned) = 1
         /\ Len(sflow.result.hits) = Len(HitsOrEmpty(sflow.returned[1]))
         /\ \A i \in 1..Len(sflow.result.hits) :
              sflow.result.hits[i].agent = sflow.returned[1].hits[i]

C18_Witness ==
  /\ VectorSearchFailed(sflow)
  /\ sflow.vectorErr = Err(503, "vectorSearch", 1)
  /\ sflow.options.limit = 5
  /\ sflow.options.protocols = <<"mcp">>
  /\ sflow.pc = "done"
  /\ Len(sflow.result.hits) = 2

\* the vector search of vectorSearchErc8004 returned without error
VectorSearchReturned(f) ==
  /\ f.kind = "facadeVector"
  /\ f.vectorErr = NoError
  /\ Len(f.returned) >= 1

\* C19 as stated: when the vector search returns zero hits without error
\* the keyword search is run and its hits are returned.
C19_AsStated ==
  (VectorSearchReturned(sflow) /\ Len(HitsOrEmpty(sflow.returned[1])) = 0) =>
    /\ Len(sflow.searches) = 2
    /\ sflow.searches[2].op = "search"

\* C19 amended: when the vector search returns without error, its hits are
\* the result even when there are none, and no keyword search is made:
\* the single request is the vector request, which carries the protocols
\* filter of the call (['a2a'] when none is given); with zero hits the
\* result is empty, so no hit without an MCP endpoint is returned.
C19_EmptyVectorResultReturned ==
  VectorSearchReturned(sflow) =>
    /\ sflow.pc = "done"
    /\ Len(sflow.searches) = 1
    /\ Len(sflow.requests) = 1
    /\ sflow.searches[1].op = "vectorSearch"
    /\ sflow.searches[1].protocols =
         IF sflow.options.protocols = Absent THEN <<"a2a">>
         ELSE sflow.options.protocols
    /\ sflow.result.st = "ok"
    /\ Len(sflow.result.hits) = Len(HitsOrEmpty(sflow.returned[1]))
    /\ Len(HitsOrEmpty(sflow.returned[1])) = 0 => sflow.result.hits = <<>>

C19_Witness ==
  /\ VectorSearchReturned(sflow)
  /\ sflow.options.protocols = <<"mcp">>
  /\ sflow.returned = <<Response(TRUE, <<>>)>>
  /\ sflow.pc = "done"
  /\ sflow.result.hits = <<>>
  /\ Len(sflow.searches) = 1

\* invocations made for the last search of the flow
LastSearchInvocations(f) ==
  Cardinality({i \in 1..Len(f.requests) : f.requests[i].search = Len(f.searches)})

\* C20: a call of the search adapter (search or vectorSearch) that fails
\* with a retryable error has invoked the failing network call maxAttempts
\* times.
C20_AllSearchCallsRetried ==
  (/\ sflow.kind \in {"adapterSearch", "adapterVector"}
   /\ sflow.pc = "failed"
   /\ isRetryableBrokerError(sflow.result.error)) =>
    LastSearchInvocations(sflow) = maxAttempts

(***************************************************************************)
(* Sends on established handles and argument validation                    *)
(***************************************************************************)
InitSend ==
  /\ rx = RxIdle
  /\ tgtIn = NoTargetIn
  /\ tgtOut = NoTargetOut
  /\ call = [p \in Procs |-> IdleCall]
  /\ uaidByAgentId = [k \in AgentKeys |-> Absent]
  /\ firstBound = [k \in AgentKeys |-> Absent]
  /\ RegistryEmpty
  /\ sflow = IdleSearch
  /\ sync = SyncIdle
  /\ ssc = SscIdle
  /\ sem = SemIdle
  /\ sdk = SdkIdle
  /\ snd = SndIdle

NextSend ==
  \/ PlaintextSendCall
  \/ MappedSendCall
  \/ Erc8004SendCall
  \/ TargetSendCall
  \/ SendReturns
  \/ SendThrows
  \/ SendFinish

SpecSend == InitSend /\ [][NextSend]_vars

\* the send reached its network call and the call kept failing
SendFailedOnNetwork(f) ==
  /\ f.kind \in {"plaintextHandle", "mappedHandle"}
  /\ f.pc = "failed"
  /\ Len(f.thrown) >= 1

\* C21: a send on a handle of either mode that fails with a retryable error
\* has invoked the underlying send maxAttempts times, and one that fails
\* with a non-retryable error throws that error at the attempt it occurred.
C21_HandleSendRetried ==
  SendFailedOnNetwork(snd) =>
    LET last == snd.thrown[Len(snd.thrown)] IN
    /\ snd.result.error = last
    /\ isRetryableBrokerError(last) => snd.invoked = maxAttempts
    /\ ~isRetryableBrokerError(snd.thrown[1]) => snd.invoked = 1

\* the i-th failure of fn was followed by a delay (and then a further attempt)
RxRetriedAfter(i) == i <= Len(rx.delays)

HintMs(retryAfter) == retryAfter * 1000

\* C23 as stated: an execution in which every failure has status 429 ends
\* only after maxAttempts invocations, and the delay after a 429 is at least
\* the retry-after hint the error carries.
C23_AsStated ==
  (/\ RxFinished
   /\ Len(rx.thrown) = rx.invoked
   /\ \A i \in 1..Len(rx.thrown) : rx.thrown[i].status = 429) =>
    /\ rx.invoked = maxAttempts
    /\ \A i \in 1..Len(rx.delays) : rx.delays[i] >= HintMs(rx.hints[i])

\* C23 amended: an error of status 429 is not retried: it ends the
\* execution at the attempt that threw it and is the outcome unchanged;
\* a retry-after hint is never read: every delay taken is baseDelay * attempt
\* whatever hint the error before it carried.
C23_RateLimitNotRetried ==
  /\ \A i \in 1..Len(rx.thrown) :
       rx.thrown[i].status = 429 =>
         /\ ~RxRetriedAfter(i)
         /\ i = Len(rx.thrown)
         /\ rx.st = "threw"
         /\ rx.outcome = rx.thrown[i]
         /\ rx.invoked = i
  /\ \A i \in 1..Len(rx.delays) : rx.delays[i] = baseDelay * i

C23_Witness ==
  /\ rx.st = "threw"
  /\ rx.thrown = <<Err(429, "fn", 1)>>
  /\ rx.hints = <<2>>
  /\ rx.invoked = 1
  /\ rx.delays = <<>>

\* C25: whether a failure is followed by a retry is decided by the status
\* of that error and by the attempts-exhausted test alone: the i-th failure
\* is retried exactly when its status is 502, 503 or 504 and i < maxAttempts,
\* whatever errors came before it; two failures of one execution with the
\* same status, both before the last attempt, are treated alike.
C25_ClassificationHistoryFree ==
  /\ \A i \in 1..Len(rx.thrown) :
       RxRetriedAfter(i) <=>
         (rx.thrown[i].status \in {502, 503, 504} /\ i < maxAttempts)
  /\ \A i, j \in 1..Len(rx.thrown) :
       (rx.thrown[i].status = rx.thrown[j].status /\ i < maxAttempts /\ j < maxAttempts)
         => (RxRetriedAfter(i) <=> RxRetriedAfter(j))

C25_Witness ==
  /\ Len(rx.thrown) = 3
  /\ rx.thrown[1].status = 503
  /\ rx.thrown[2].status = 503
  /\ rx.thrown[3].status = 400
  /\ RxRetriedAfter(1)
  /\ RxRetriedAfter(2)
  /\ rx.st = "threw"

\* C30: the delay taken after the k-th failed attempt is 450 * k ms; a delay
\* is taken only after a retryable failure with attempts remaining: at most
\* maxAttempts - 1 delays, none after the last attempt's failure, none after
\* a non-retryable error and none after a success.
C30_LinearBackoff ==
  /\ \A k \in 1..Len(rx.delays) :
       /\ rx.delays[k] = 450 * k
       /\ k < 3
       /\ isRetryableBrokerError(rx.thrown[k])
  /\ Len(rx.delays) <= maxAttempts - 1
  /\ rx.st = "sleeping" => Len(rx.delays) = Len(rx.thrown)
  /\ rx.st = "threw" => Len(rx.delays) = Len(rx.thrown) - 1
  /\ rx.st \in {"calling", "returned"} => Len(rx.delays) = Len(rx.thrown)
  /\ rx.st = "calling" => Len(rx.delays) = rx.attempt - 1

C30_Witness ==
  /\ rx.st = "threw"
  /\ rx.invoked = 3
  /\ rx.delays = <<450, 900>>
  /\ Len(rx.thrown) = 3

\* the argument of the operation violates its documented requirement
ArgumentViolation(f) ==
  \/ /\ f.kind = "plaintextHandle"
     /\ ~NonBlank(f.options.message)
  \/ /\ f.kind = "target"
     /\ ~NonBlank(f.options.uaid)
     /\ ~NonBlank(f.options.agentUrl)
  \/ /\ f.kind = "erc8004"
     /\ (Trim(f.options.sessionId) = EmptyStr \/ Trim(f.options.message) = EmptyStr)
  \/ /\ f.kind = "mappedHandle"
     /\ \/ f.options.plaintext = EmptyStr
        \/ (f.options.plaintext = Absent /\ f.options.message \in {Absent, EmptyStr})

\* send on a handle of either kind with neither a non-blank message nor a
\* non-blank plaintext
BlankMessageSend(f) ==
  /\ f.kind \in {"plaintextHandle", "mappedHandle"}
  /\ ~NonBlank(f.options.message)
  /\ ~NonBlank(f.options.plaintext)

\* the operation threw before any network call
ThrewAtOnce(f) ==
  /\ f.pc = "failed"
  /\ f.invoked = 0
  /\ f.attempt = 0
  /\ f.thrown = <<>>
  /\ f.delays = <<>>
  /\ f.payload = NoSendOptions
  /\ f.result.st = "error"
  /\ f.result.error.status = NoStatus
  /\ f.result.error.seq = 0

\* C24 as stated: a blank message passed to send (on any handle), a target
\* with neither uaid nor agentUrl, and a blank sessionId or message passed to
\* sendErc8004Message make the operation throw at once, without a network
\* call.
C24_AsStated ==
  (ArgumentViolation(snd) \/ BlankMessageSend(snd)) => ThrewAtOnce(snd)

\* C24 amended: a blank message passed to the send of a plaintext handle, a
\* target with neither a non-blank uaid nor a non-blank agentUrl, and a blank
\* sessionId or message passed to sendErc8004Message make the operation
\* throw at once: the error is created locally, no network call is invoked,
\* nothing is retried and no delay is taken.  The send of a handle mapped
\* from chat.start throws at once only when plaintext is empty, or plaintext
\* is absent and message is absent or empty; a whitespace-only message
\* (without plaintext) is handed to handle.send.
C24_ValidationImmediate ==
  /\ ArgumentViolation(snd) => ThrewAtOnce(snd)
  /\ (/\ snd.kind = "mappedHandle"
      /\ BlankMessageSend(snd)
      /\ ~ArgumentViolation(snd)) =>
       /\ snd.invoked = 1
       /\ snd.thrown = <<>> => snd.pc \in {"handleSend", "done"}
       /\ snd.payload.plaintext = Coalesce(snd.options.plaintext, snd.options.message)
       /\ Trim(snd.payload.plaintext) = EmptyStr

C24_Witness ==
  /\ snd.kind = "plaintextHandle"
  /\ snd.options.message = <<SP>>
  /\ snd.pc = "failed"
  /\ snd.invoked = 0
  /\ snd.result.error = Err(NoStatus, "message is required", 0)

\* message() reached createSession and then failed
FailedAfterCreateSession(c) ==
  /\ c.kind = "message"
  /\ c.pc = "failed"
  /\ c.calls["create"] >= 1

\* C26: when message() fails after calling createSession (preference
\* preferred or disabled), no handle is returned and the error is either
\* the very error the last createSession invocation threw (after three
\* invocations when it is retryable) or the local "did not return a
\* sessionId" error; it is never the error of the encrypted negotiation.
C26_FallbackFailureFinal ==
  \A p \in Procs :
    LET c == call[p] IN
    FailedAfterCreateSession(c) =>
      /\ Preference(c.req) \in {"preferred", "disabled"}
      /\ c.result.st = "error"
      /\ c.result.sessionId = Absent
      /\ c.result.mode = "none"
      /\ c.result.error # c.startErr
      /\ c.result.error.origin
           \in {"create", "Registry Broker createSession did not return a sessionId"}
      /\ c.result.error.origin = "create" =>
           /\ c.result.error.seq = c.calls["create"]
           /\ c.sid = Absent
           /\ isRetryableBrokerError(c.result.error) => c.calls["create"] = maxAttempts
           /\ ~isRetryableBrokerError(c.result.error) => c.calls["create"] <= maxAttempts
      /\ Preference(c.req) = "preferred" => c.startErr.origin = "start"
      /\ Preference(c.req) = "disabled" => (c.startErr = NoError /\ c.calls["start"] = 0)

C26_Witness ==
  \E p \in Procs :
    /\ call[p].kind = "message"
    /\ Preference(call[p].req) = "preferred"
    /\ call[p].startErr = Err(400, "start", 1)
    /\ call[p].calls["create"] = 3
    /\ call[p].pc = "failed"
    /\ call[p].result.error = Err(503, "create", 3)

(***************************************************************************)
(* Semantic index manager                                                  *)
(***************************************************************************)
InitSemantic ==
  /\ rx = RxIdle
  /\ tgtIn = NoTargetIn
  /\ tgtOut = NoTargetOut
  /\ call = [p \in Procs |-> IdleCall]
  /\ uaidByAgentId = [k \in AgentKeys |-> Absent]
  /\ firstBound = [k \in AgentKeys |-> Absent]
  /\ RegistryEmpty
  /\ sflow = IdleSearch
  /\ sync = SyncIdle
  /\ sdk = SdkIdle
  /\ snd = SndIdle
  /\ sem = SemIdle
  /\ ssc = SscIdle

NextSemantic ==
  \/ SemIndexAgent
  \/ SemIndexAgentsBatch
  \/ SemDeleteAgentsBatchCall
  \/ SemDeleteStep

SpecSemantic == InitSemantic /\ [][NextSemantic]_vars

\* the entries the store holds for the agent (chainId, agentId)
EntriesOf(store, key) == {e \in store : parseVectorId(e.id) = key}

\* C27: the vector id is chainId-agentId, a function of the agent's chain
\* and id only (records that differ in other fields get the same id, and
\* the id parses back to the pair); the store never holds two entries for
\* one agent, and after an agent is indexed its single entry is the one
\* last written.
C27_DeterministicVectorIds ==
  /\ \A r1, r2 \in SemRecords :
       (r1.chainId = r2.chainId /\ r1.agentId = r2.agentId)
         <=> SemItem(r1).id = SemItem(r2).id
  /\ \A i \in 1..Len(sem.records) :
       LET r == sem.records[i] IN
       /\ sem.calls[1].ids[i] = r.chainId \o <<"-">> \o r.agentId
       /\ parseVectorId(sem.calls[1].ids[i]) = SemKey(r.chainId, r.agentId)
  /\ \A e1, e2 \in sem.store : e1.id = e2.id => e1 = e2
  /\ \A c \in SemChainIds, a \in SemAgentIds :
       Cardinality(EntriesOf(sem.store, SemKey(c, a))) <= 1
  /\ sem.last = "indexAgent" =>
       EntriesOf(sem.store, SemKey(sem.records[1].chainId, sem.records[1].agentId))
         = {SemItem(sem.records[1])}

C27_Witness ==
  /\ sem.last = "indexAgent"
  /\ sem.records = <<[chainId |-> <<"1", "3", "7">>,
                       agentId |-> <<"1", "3", "7", ":", "7">>, name |-> "n2"]>>
  /\ [id |-> <<"1", "3", "7", "-", "1", "3", "7", ":", "7">>, text |-> "n1"] \in sem.store0
  /\ [id |-> <<"1", "3", "7", "-", "1", "3", "7", ":", "7">>, text |-> "n2"] \in sem.store
  /\ Cardinality(sem.store) = Cardinality(sem.store0)

\* C28: deleteAgentsBatch on a store without deleteMany calls delete once per
\* requested key, in the order of the keys, nothing else; when it has
\* finished every key has been covered and the store equals the store a
\* deleteMany of the same ids would have left.
C28_DeleteBatchFallback ==
  (sem.last = "deleteAgentsBatch" /\ ~sem.hasDeleteMany) =>
    LET ids == SemIdsOf(sem.keys)
        done == Len(sem.calls)
    IN
    /\ done <= Len(ids)
    /\ \A i \in 1..done : sem.calls[i] = StoreCall("delete", <<ids[i]>>)
    /\ sem.pending = SubSeq(ids, done + 1, Len(ids))
    /\ sem.store = VectorDeleteMany(sem.store0, SubSeq(ids, 1, done))
    /\ sem.pc = "idle" =>
         /\ done = Len(sem.keys)
         /\ sem.store = VectorDeleteMany(sem.store0, ids)
         /\ \A k \in 1..Len(sem.keys) : EntriesOf(sem.store, sem.keys[k]) = {}

C28_Witness ==
  /\ sem.last = "deleteAgentsBatch"
  /\ ~sem.hasDeleteMany
  /\ sem.pc = "idle"
  /\ Len(sem.keys) = 2
  /\ sem.keys[1] # sem.keys[2]
  /\ Len(sem.calls) = 2
  /\ Cardinality(sem.store0) = 3
  /\ Cardinality(sem.store) = 1

(***************************************************************************)
(* Semantic search client                                                  *)
(***************************************************************************)
InitClient ==
  /\ rx = RxIdle
  /\ tgtIn = NoTargetIn
  /\ tgtOut = NoTargetOut
  /\ call = [p \in Procs |-> IdleCall]
  /\ uaidByAgentId = [k \in AgentKeys |-> Absent]
  /\ firstBound = [k \in AgentKeys |-> Absent]
  /\ RegistryEmpty
  /\ sflow = IdleSearch
  /\ sync = SyncIdle
  /\ sdk = SdkIdle
  /\ snd = SndIdle
  /\ sem = SemIdle
  /\ ssc = SscIdle

NextClient == SscCall \/ SscFetchResolves \/ SscFetchRejects \/ SscFinish

SpecClient == InitClient /\ [][NextClient]_vars

\* searchAgents received a response that is not ok
NonOkResponse(c) == c.response.status \notin {0, 200}

\* the error code the response carries: the code of its JSON body, or the
\* code that stands for its status when the body is not JSON
ResponseErrorCode(response) ==
  IF response.body.json THEN response.body.code
  ELSE IF response.status = 429 THEN "RATE_LIMIT_EXCEEDED"
  ELSE IF response.status >= 500 THEN "INTERNAL_ERROR"
  ELSE "other"

\* the seconds a Retry-After header stands for
RetryAfterSeconds(header) ==
  CASE header.kind = "int" -> header.n
    [] header.kind = "date" /\ header.n > 0 -> header.n
    [] header.kind = "date" /\ header.n <= 0 -> 0
    [] OTHER -> NoRetryAfter

\* C29: a response that is not ok makes searchAgents throw exactly one
\* error, whose class, code and status follow from the error code of the
\* response alone, whatever its HTTP status: RATE_LIMIT_EXCEEDED gives a
\* RateLimitError of status 429 whose retryAfter is the value of the
\* Retry-After header, VALIDATION_ERROR a ValidationError of status 400,
\* INTERNAL_ERROR an error of status 500 and code INTERNAL_ERROR; the caller
\* receives that very error object, never a NetworkError.
C29_ErrorClassByCode ==
  NonOkResponse(ssc) =>
    LET code == ResponseErrorCode(ssc.response)
        error == ssc.result.error
    IN
    /\ ssc.pc = "failed"
    /\ Len(ssc.raised) = 1
    /\ error = ssc.raised[1]
    /\ error.id = "response"
    /\ error.class # "NetworkError"
    /\ code = "RATE_LIMIT_EXCEEDED" =>
         /\ error.class = "RateLimitError"
         /\ error.status = 429
         /\ error.code = "RATE_LIMIT_EXCEEDED"
         /\ error.retryAfter = RetryAfterSeconds(ssc.response.retryAfter)
    /\ code = "VALIDATION_ERROR" =>
         /\ error.class = "ValidationError"
         /\ error.status = 400
         /\ error.code = "VALIDATION_ERROR"
    /\ code = "INTERNAL_ERROR" =>
         /\ error.class = "InternalServerError"
         /\ error.status = 500
         /\ error.code = "INTERNAL_ERROR"

C29_Witness ==
  /\ ssc.pc = "failed"
  /\ ssc.response.status = 503
  /\ ssc.response.body = [json |-> TRUE, code |-> "RATE_LIMIT_EXCEEDED"]
  /\ ssc.response.retryAfter = [kind |-> "int", n |-> 60]
  /\ ssc.result.error.class = "RateLimitError"
  /\ ssc.result.error.status = 429
  /\ ssc.result.error.retryAfter = 60

(***************************************************************************)
(* Open operations under fair scheduling: every awaited adapter call       *)
(* eventually resolves or rejects, and the backoff timers fire.            *)
(***************************************************************************)
\* the awaited call of the flow returns or throws
OpenResponds ==
  \/ MessageSearch1Returns(MainProc)
  \/ MessageSearch2Returns(MainProc)
  \/ MessageSearchBadPayload(MainProc)
  \/ MessageOpThrows(MainProc, BrokerErrStatuses)
  \/ MessageStartReturns(MainProc)
  \/ MessageCreateReturns(MainProc)

NextOpen ==
  \/ MessageCall(MainProc, MessageRequests)
  \/ OpenResponds
  \/ Finish(MainProc)

SpecOpen == InitChat /\ [][NextOpen]_vars /\ WF_vars(OpenResponds)

\* Established (a handle is returned) or Failed (an error is raised)
Terminal(c) == c.pc \in {"done", "failed"}

\* the flow awaits an adapter call
Awaiting(c) == c.pc \in {"search1", "search2", "start", "create"}

\* the outcome the caller has: none before the terminal state, then a handle
\* without error or an error without handle
OutcomeMatchesState(c) ==
  /\ c.pc = "done" =>
       (c.result.st = "handle" /\ c.result.error = NoError
        /\ c.result.mode \in {"encrypted", "plaintext"})
  /\ c.pc = "failed" =>
       (c.result.st = "error" /\ c.result.error # NoError
        /\ c.result.mode = "none" /\ c.result.sessionId = Absent)
  /\ ~Terminal(c) => c.result = NoResult

\* C31: every open operation (message()) that awaits an adapter call reaches
\* a terminal state, Established or Failed, when each awaited call eventually
\* returns or throws; the outcome is a handle or an error, never both and
\* never neither, none exists before the terminal state, and from the
\* terminal state the operation makes no adapter call: its next step hands
\* the slot back.
C31_OneTerminalOutcome ==
  /\ Awaiting(call[MainProc]) ~> Terminal(call[MainProc])
  /\ [](call[MainProc].kind \in {"none", "message"}
        /\ OutcomeMatchesState(call[MainProc]))
  /\ [][Terminal(call[MainProc]) => call'[MainProc] = IdleCall]_vars

\* a fallback that ran out of retries: the operation is Failed after three
\* createSession invocations that followed a failed negotiation
C31_Witness ==
  /\ call[MainProc].kind = "message"
  /\ call[MainProc].pc = "failed"
  /\ call[MainProc].calls["start"] = 1
  /\ call[MainProc].calls["create"] = 3
  /\ call[MainProc].result.error = Err(503, "create", 3)

(***************************************************************************)
(* Order of the encrypted negotiation and the plaintext fallback           *)
(***************************************************************************)
\* message() opened with preference preferred (the default) and has called
\* createSession
PreferredFallback(c) ==
  /\ c.kind = "message"
  /\ Preference(c.req) = "preferred"
  /\ c.calls["create"] > 0

\* C32 as stated: under preferred, createSession is invoked only after a
\* terminal chat.start failure with exactly 1 invocation or after 3 transient
\* failures.
C32_AsStated ==
  LET c == call[MainProc] IN
  PreferredFallback(c) =>
    \/ (~isRetryableBrokerError(c.startErr) /\ c.startErr # NoError
        /\ c.calls["start"] = 1)
    \/ (isRetryableBrokerError(c.startErr) /\ c.calls["start"] = maxAttempts)

\* C32: under preferred, createSession is invoked only after chat.start has
\* ended in error: either with a terminal error at the attempt that threw it
\* (invocation 1, or 2 or 3 when transient errors came first), or with a
\* transient error on the third of 3 invocations.  It is never invoked while
\* chat.start or its backoff is pending, nor after chat.start succeeded.
C32_FallbackAfterNegotiation ==
  LET c == call[MainProc] IN
  /\ PreferredFallback(c) =>
       /\ c.startHandle = NoHandle
       /\ c.startErr # NoError
       /\ c.startErr.origin = "start"
       /\ c.calls["start"] = c.startErr.seq
       /\ c.calls["start"] \in 1..maxAttempts
       /\ isRetryableBrokerError(c.startErr) => c.calls["start"] = maxAttempts
  /\ (c.kind = "message" /\ Preference(c.req) = "preferred") =>
       /\ c.pc = "start" => c.calls["create"] = 0
       /\ c.startHandle # NoHandle => c.calls["create"] = 0

\* a transient failure, then a terminal one, then the fallback
C32_Witness ==
  /\ PreferredFallback(call[MainProc])
  /\ call[MainProc].pc = "create"
  /\ call[MainProc].startErr = Err(400, "start", 2)
  /\ call[MainProc].calls["start"] = 2

(***************************************************************************)
(* Writes of the UAID cache                                                *)
(***************************************************************************)
\* the flow awaits one of the two searches of resolveChatTargetFromAgent
Resolving(c) == c.kind = "message" /\ c.pc \in {"search1", "search2"}

\* a value the cache may hold for an agentId: nothing, or a trimmed uaid
\* that is not empty
CacheValueOk(v) == v = Absent \/ (v # EmptyStr /\ Trim(v) = v)

\* the step stores v under k on behalf of flow p, whose resolution succeeds
StoresFromHit(p, k, v) ==
  /\ Resolving(call[p])
  /\ call'[p].pc \in {"start", "create"}
  /\ k = AgentIdOf(call[p].req)
  /\ v \in {call'[p].uaid1, call'[p].uaid2}
  /\ v # EmptyStr /\ v # Absent
  /\ call'[p].target.uaid = v
  /\ uaidByAgentId' = [uaidByAgentId EXCEPT ![k] = v]

\* what a step does to the cache
CacheFrame ==
  /\ uaidByAgentId' # uaidByAgentId =>
       \E q \in Procs, k \in AgentKeys, hit \in SearchUaids :
         StoresFromHit(q, k, OptTrim(hit))
  /\ \A p \in Procs :
       (Resolving(call[p]) /\ call'[p].pc = "failed") =>
         uaidByAgentId' = uaidByAgentId

\* C33: the cache never holds an empty uaid; every step that changes it is
\* the successful end of a resolution, storing under that resolution's
\* agentId the non-empty trimmed uaid of a search hit, which is also the
\* target the resolution returns; a step in which a resolution fails (search
\* error, bad payload, no hit with a uaid) leaves the cache unchanged.
C33_CacheWrittenOnSuccess ==
  /\ [](\A k \in AgentKeys : CacheValueOk(uaidByAgentId[k]))
  /\ [][CacheFrame]_vars

\* the unrestricted search found no uaid after an entry had been stored for
\* the other agentId: the resolution failed and the entry is still there
C33_Witness ==
  /\ call[MainProc].pc = "failed"
  /\ call[MainProc].calls["search2"] > 0
  /\ call[MainProc].calls["start"] = 0
  /\ call[MainProc].calls["create"] = 0
  /\ AgentIdOf(call[MainProc].req) = <<"b">>
  /\ uaidByAgentId[<<"a">>] = <<"v">>
  /\ uaidByAgentId[<<"b">>] = Absent

(***************************************************************************)
(* Session ids of the handles message() returns                            *)
(***************************************************************************)
\* message() returned a handle
ReturnedHandle(c) == c.kind = "message" /\ c.pc = "done"

\* C34: every handle message() returns, whether from the encrypted start,
\* from the plaintext fallback or from a resumed session, has a sessionId
\* that is neither missing nor blank.
C34_HandleHasSessionId ==
  ReturnedHandle(call[MainProc]) =>
    NonBlank(call[MainProc].result.sessionId)

(***************************************************************************)
(* RegistryBroker.chat as one turn                                         *)
(***************************************************************************)
\* number of times the flow handed the user's message to the backend
Submissions(c) == c.calls["hsend"] + c.calls["send"]

\* number of sessions the backend opened for the flow: the one behind the
\* handle of chat.start and the one createSession answered with
SessionsCreated(c) ==
  (IF c.startHandle # NoHandle THEN 1 ELSE 0)
  + (IF NonBlank(c.sid) THEN 1 ELSE 0)

\* C35: one RegistryBroker.chat() call submits the message at most once,
\* through the encrypted handle's send or through the plaintext sendMessage
\* but never both, and creates at most one session.
C35_OneTurnPerCall ==
  call[MainProc].kind = "chat" =>
    /\ Submissions(call[MainProc]) <= 1
    /\ ~(call[MainProc].calls["hsend"] > 0 /\ call[MainProc].calls["send"] > 0)
    /\ SessionsCreated(call[MainProc]) <= 1

(***************************************************************************)
(* The unrestricted search of the UAID resolution                          *)
(***************************************************************************)
\* the unrestricted search answered and its first hit carries a uaid
FallbackFoundUaid(c) ==
  /\ c.kind = "message"
  /\ c.calls["search2"] > 0
  /\ Truthy(c.uaid2)

\* C39: the unrestricted search is issued only when the search restricted to
\* the default adapter gave no usable uaid (no hit, or a first hit whose
\* uaid is missing or blank); when its own first hit carries a non-empty
\* uaid the resolution succeeds with that uaid and caches it.
C39_FallbackSearchResolves ==
  LET c == call[MainProc] IN
  /\ (c.kind = "message" /\ c.calls["search2"] > 0) =>
       (c.calls["search1"] > 0 /\ ~Truthy(c.uaid1))
  /\ FallbackFoundUaid(c) =>
       /\ c.target.uaid = c.uaid2
       /\ uaidByAgentId[AgentIdOf(c.req)] = c.uaid2
       /\ c.result.error.origin # "Unable to resolve broker UAID for agentId"

(***************************************************************************)
(* Runs of SemanticSyncRunner.run                                          *)
(***************************************************************************)
InitSync ==
  /\ rx = RxIdle
  /\ tgtIn = NoTargetIn
  /\ tgtOut = NoTargetOut
  /\ call = [p \in Procs |-> IdleCall]
  /\ uaidByAgentId = [k \in AgentKeys |-> Absent]
  /\ firstBound = [k \in AgentKeys |-> Absent]
  /\ RegistryEmpty
  /\ sflow = IdleSearch
  /\ sync = SyncIdle
  /\ ssc = SscIdle
  /\ sem = SemIdle
  /\ snd = SndIdle
  /\ sdk = SdkIdle

NextSync ==
  \/ SyncRun
  \/ SyncFetchReturns
  \/ SyncIndexReturns
  \/ SyncDeleteReturns
  \/ SyncSaveReturns
  \/ SyncCallThrows
  \/ SyncFinish

SpecSync == InitSync /\ [][NextSync]_vars

\* the state the run started from
StartState(s) ==
  IF s.loaded = NoStoredState THEN createEmptyState ELSE s.loaded

\* the agents the run has to look at: updated after the loaded cursor
DueAgents(s) ==
  {a \in s.subgraph : NumOf(a.updatedAt) > NumOf(StartState(s).lastUpdatedAt)}

\* the run did for agent a what its row asks for
Handled(s, a) ==
  /\ (a.file # "none" /\ StartState(s).agentHashes[a.id] # computeAgentHash(a))
       => a.id \in s.indexed
  /\ (a.file = "none" /\ s.includeOrphanedAgents) => a.id \in s.deleted

\* C36: when run() returns normally, every agent updated after the cursor
\* loaded at the start has been handled: indexed when it has a registration
\* file whose hash differs from the stored one, deleted when it has none and
\* orphans are included; for every batchSize and every distribution of
\* updatedAt, agents sharing one updatedAt included.
C36_SyncComplete ==
  sync.pc = "returned" => \A a \in DueAgents(sync) : Handled(sync, a)

(***************************************************************************)
(* Runs in which every call succeeds, under fair scheduling                *)
(***************************************************************************)
\* the awaited call resolves
SyncResponds ==
  \/ SyncFetchReturns
  \/ SyncIndexReturns
  \/ SyncDeleteReturns
  \/ SyncSaveReturns

NextSyncOk ==
  \/ SyncRun
  \/ SyncResponds
  \/ SyncFinish

SpecSyncOk == InitSync /\ [][NextSyncOk]_vars /\ WF_vars(SyncResponds)

\* the numerically greatest updatedAt of a batch
RECURSIVE GreatestUpdatedAt(_)
GreatestUpdatedAt(agents) ==
  IF Len(agents) = 1 THEN NumOf(agents[1].updatedAt)
  ELSE LET rest == GreatestUpdatedAt(Tail(agents))
           first == NumOf(agents[1].updatedAt)
       IN IF first > rest THEN first ELSE rest

\* C37: with every call succeeding against an unchanging finite subgraph,
\* run() eventually returns; each non-empty batch moves the cursor
\* lastUpdatedAt to the numerically greatest updatedAt of the batch, and no
\* batch is fetched twice.
C37_SyncTerminates ==
  /\ (sync.pc # "idle") ~> (sync.pc = "returned")
  /\ [](sync.pc = "save" =>
          NumOf(sync.lastUpdatedAt) = GreatestUpdatedAt(sync.agents))
  /\ [](sync.agents # <<>> => sync.agents # sync.previous)

(***************************************************************************)
(* When the sync state is written                                          *)
(***************************************************************************)
\* the state as of the last save of the run, or as loaded when none was made
LastSaved(s) ==
  IF s.saved = NoStoredState THEN createEmptyState ELSE s.saved

\* the writes the batch in hand needs have succeeded
WritesDone(s) ==
  /\ s.toIndex # <<>> => "index" \in s.written
  /\ s.toDelete # <<>> => "delete" \in s.written

\* C38: in each batch the hashes and the cursor are written to the state and
\* stateStore.save is called only after the batch's indexing and deletion
\* have succeeded, and exactly once; while a write is awaited, and when it
\* throws, the state and the cursor are those of the last save, save has not
\* been called for the batch, and the error thrown by the write is the one
\* run() throws.
C38_CommitAfterWrites ==
  /\ sync.pc = "save" =>
       /\ WritesDone(sync)
       /\ sync.saves = 0
       /\ sync.state =
            SyncState(sync.maxUpdatedAt,
                      ApplyHashes(LastSaved(sync).agentHashes, sync.hashes))
  /\ sync.pc \in {"index", "delete"} =>
       /\ sync.saves = 0
       /\ sync.state = LastSaved(sync)
       /\ sync.lastUpdatedAt = LastSaved(sync).lastUpdatedAt
  /\ (sync.pc = "fetch" /\ sync.agents # <<>>) =>
       /\ sync.saves = 1
       /\ sync.saved = sync.state
  /\ (sync.pc = "threw" /\ sync.error.origin \in {"index", "delete"}) =>
       /\ sync.error = Err(503, sync.error.origin, 0)
       /\ sync.saves = 0
       /\ sync.state = LastSaved(sync)
       /\ sync.lastUpdatedAt = LastSaved(sync).lastUpdatedAt

\* the first batch was indexed and saved, the deletion of the second threw:
\* the state is the one saved after the first batch
C38_Witness ==
  /\ sync.pc = "threw"
  /\ sync.error.origin = "delete"
  /\ sync.indexed # {}
  /\ sync.loaded = NoStoredState
  /\ sync.saved.lastUpdatedAt = <<"5">>
  /\ sync.state = sync.saved
  /\ sync.maxUpdatedAt = <<"9">>

====
